---------------------------- MODULE Spec2Model ----------------------------
(***************************************************************************)
(* A model of the routing and middleware-dispatch core:                   *)
(*   - path_utils (pattern -> regex source -> matcher, variable index),   *)
(*   - Router (route table, match_route, add_route, invoke),              *)
(*   - Response operations that end a middleware unit,                    *)
(*   - the middleware chain and the error handler chain.                  *)
(* Strings are sequences of one-character strings.  A regex source is a   *)
(* sequence of symbols: one character each, except that a character class *)
(* followed by its star is kept as one symbol.                            *)
(***************************************************************************)
EXTENDS Integers, Sequences, FiniteSets, TLC

(***************************************************************************)
(* Bounds of the model.                                                    *)
(***************************************************************************)
MaxRoutes == 2
MaxUnits == 3
MaxErrorHandlers == 2
MaxBetween == 2        \* path segments put between foo and bar
MaxOnSend == 3         \* callbacks an application registers with on_send
MaxStarts == 2         \* calls of start() on one response

(***************************************************************************)
(* Characters.                                                             *)
(***************************************************************************)
Lower == {"a","b","c","d","e","f","g","h","i","j","k","l","m",
          "n","o","p","q","r","s","t","u","v","w","x","y","z"}
Upper == {"A","B","C","D","E","F","G","H","I","J","K","L","M",
          "N","O","P","Q","R","S","T","U","V","W","X","Y","Z"}
Digit == {"0","1","2","3","4","5","6","7","8","9"}
Alnum == Lower \cup Upper \cup Digit

\* the class [,a-zA-Z0-9_-] of REGEX_VAR_SEQ and VAR_SEQ
VarSeqChars == Alnum \cup {",", "_", "-"}

\* the regex fragments of path_utils, as symbol sequences
VAR_SEQ == <<"[,a-zA-Z0-9_-]*">>
VAR_SEQ_WITH_SLASH == <<"[,/a-zA-Z0-9_-]*">>
\* the capturing fragment as it would be without "%" in its class
VAR_SEQ_WITH_CAPTURE_no_percent == <<"(", "[,a-zA-Z0-9_-]*", ")">>
VAR_SEQ_WITH_CAPTURE == <<"(", "[,a-zA-Z0-9%_-]*", ")">>
REGEX_PARAM_SEQ == <<"(", "\\", "?", "[a-zA-Z0-9%_=&-]*", ")", "?">>
REGEX_START == <<"^">>
REGEX_END == <<"$">>
DOUBLE_WILDCARD == <<"___DOUBLE_WILDCARD___">>
FORMAT_VAR == <<":", "f", "o", "r", "m", "a", "t">>

\* the characters a class-star symbol accepts
ClassChars(sym) ==
    CASE sym = "[,a-zA-Z0-9_-]*" -> VarSeqChars
      [] sym = "[,/a-zA-Z0-9_-]*" -> VarSeqChars \cup {"/"}
      [] sym = "[,a-zA-Z0-9%_-]*" -> VarSeqChars \cup {"%"}
      [] sym = "[a-zA-Z0-9%_=&-]*" -> Alnum \cup {"%", "_", "=", "&", "-"}
      [] OTHER -> {}

IsClassStar(sym) ==
    sym \in {"[,a-zA-Z0-9_-]*", "[,/a-zA-Z0-9_-]*", "[,a-zA-Z0-9%_-]*",
             "[a-zA-Z0-9%_=&-]*"}

(***************************************************************************)
(* String helpers (str::replace, str::contains).                           *)
(***************************************************************************)
StartsWithAt(s, i, pat) ==
    /\ i + Len(pat) - 1 <= Len(s)
    /\ \A k \in 1..Len(pat) : s[i + k - 1] = pat[k]

Contains(s, pat) == \E i \in 1..(Len(s) + 1) : StartsWithAt(s, i, pat)

RECURSIVE ReplaceFrom(_, _, _, _)
ReplaceFrom(s, i, from, to) ==
    IF i > Len(s) THEN <<>>
    ELSE IF StartsWithAt(s, i, from)
         THEN to \o ReplaceFrom(s, i + Len(from), from, to)
         ELSE <<s[i]>> \o ReplaceFrom(s, i + 1, from, to)

\* leftmost, non-overlapping replacement of every occurrence
Replace(s, from, to) == ReplaceFrom(s, 1, from, to)


(***************************************************************************)
(* path_utils                                                              *)
(***************************************************************************)
\* end of the run of [,a-zA-Z0-9_-] characters that starts at j
RECURSIVE NameEnd(_, _)
NameEnd(s, j) ==
    IF j <= Len(s) /\ s[j] \in VarSeqChars THEN NameEnd(s, j + 1) ELSE j

\* REGEX_VAR_SEQ.replace_all(s, VAR_SEQ_WITH_CAPTURE): every ":" with the
\* name characters that follow it becomes a capturing group
RECURSIVE ReplaceAllVars(_, _)
ReplaceAllVars(s, i) ==
    IF i > Len(s) THEN <<>>
    ELSE IF s[i] = ":"
         THEN VAR_SEQ_WITH_CAPTURE \o ReplaceAllVars(s, NameEnd(s, i + 1))
         ELSE <<s[i]>> \o ReplaceAllVars(s, i + 1)

\* the source of the regex create_regex compiles
create_regex(route_path) ==
    LET updated_path ==
            Replace(Replace(Replace(route_path, <<"*", "*">>, DOUBLE_WILDCARD),
                            <<"*">>, VAR_SEQ),
                    DOUBLE_WILDCARD, VAR_SEQ_WITH_SLASH)
    IN  REGEX_START \o ReplaceAllVars(updated_path, 1) \o REGEX_PARAM_SEQ \o REGEX_END

\* REGEX_VAR_SEQ.captures_iter(s): the variable names, left to right
RECURSIVE VarNames(_, _)
VarNames(s, i) ==
    IF i > Len(s) THEN <<>>
    ELSE IF s[i] = ":"
         THEN <<SubSeq(s, i + 1, NameEnd(s, i + 1) - 1)>> \o VarNames(s, NameEnd(s, i + 1))
         ELSE VarNames(s, i + 1)

\* a HashMap collected from (name, i) pairs: a later pair replaces an
\* earlier one with the same name
get_variable_info(route_path) ==
    LET names == VarNames(route_path, 1)
        keys == {names[k] : k \in 1..Len(names)}
        Last(n) == CHOOSE k \in 1..Len(names) :
                       /\ names[k] = n
                       /\ \A l \in 1..Len(names) : names[l] = n => l <= k
    IN  [n \in keys |-> Last(n) - 1]

(***************************************************************************)
(* The regex engine, for the sources create_regex produces: leftmost-first *)
(* matching (greedy star, an optional group is tried before it is         *)
(* skipped), groups numbered by their opening parenthesis.                 *)
(***************************************************************************)
NoMatch == [ok |-> FALSE, caps |-> <<>>]

\* number of "(" in re[1..i]
GroupNo(re, i) == Cardinality({k \in 1..i : re[k] = "("})

NumGroups(re) == GroupNo(re, Len(re))

\* the ")" that closes the "(" at i
RECURSIVE CloseFrom(_, _, _)
CloseFrom(re, k, depth) ==
    IF k > Len(re) THEN k
    ELSE IF re[k] = "(" THEN CloseFrom(re, k + 1, depth + 1)
    ELSE IF re[k] = ")"
         THEN IF depth = 1 THEN k ELSE CloseFrom(re, k + 1, depth - 1)
    ELSE CloseFrom(re, k + 1, depth)

CloseOf(re, i) == CloseFrom(re, i + 1, 1)

\* the "(" that the ")" at i closes
OpenOf(re, i) == CHOOSE k \in 1..i : re[k] = "(" /\ CloseOf(re, k) = i

\* how many characters of s from p on are in the class
RECURSIVE ClassRun(_, _, _)
ClassRun(s, p, cls) ==
    IF p <= Len(s) /\ s[p] \in cls THEN 1 + ClassRun(s, p + 1, cls) ELSE 0

RECURSIVE Run(_, _, _, _, _, _)
RECURSIVE TryStar(_, _, _, _, _, _, _)
Run(re, i, s, p, caps, starts) ==
    IF i > Len(re) THEN [ok |-> TRUE, caps |-> caps]
    ELSE LET sym == re[i] IN
      CASE sym = "^" -> IF p = 1 THEN Run(re, i + 1, s, p, caps, starts) ELSE NoMatch
        [] sym = "$" -> IF p = Len(s) + 1 THEN Run(re, i + 1, s, p, caps, starts)
                        ELSE NoMatch
        [] sym = "\\" -> IF p <= Len(s) /\ s[p] = re[i + 1]
                         THEN Run(re, i + 2, s, p + 1, caps, starts) ELSE NoMatch
        [] sym = "." -> IF p <= Len(s) /\ s[p] # "\n"
                        THEN Run(re, i + 1, s, p + 1, caps, starts) ELSE NoMatch
        [] sym = "(" ->
             LET g == GroupNo(re, i)
                 c == CloseOf(re, i)
                 optional == c + 1 <= Len(re) /\ re[c + 1] = "?"
                 inside == Run(re, i + 1, s, p, caps, [starts EXCEPT ![g] = p])
             IN  IF inside.ok THEN inside
                 ELSE IF optional THEN Run(re, c + 2, s, p, caps, starts)
                 ELSE NoMatch
        [] sym = ")" ->
             LET g == GroupNo(re, OpenOf(re, i))
                 next == IF i + 1 <= Len(re) /\ re[i + 1] = "?" THEN i + 2 ELSE i + 1
             IN  Run(re, next, s, p,
                     [caps EXCEPT ![g] = SubSeq(s, starts[g], p - 1)], starts)
        [] IsClassStar(sym) ->
             TryStar(re, i, s, p, ClassRun(s, p, ClassChars(sym)), caps, starts)
        [] OTHER -> IF p <= Len(s) /\ s[p] = sym
                    THEN Run(re, i + 1, s, p + 1, caps, starts) ELSE NoMatch
TryStar(re, i, s, p, k, caps, starts) ==
    LET r == Run(re, i + 1, s, p + k, caps, starts)
    IN  IF r.ok THEN r
        ELSE IF k = 0 THEN NoMatch
        ELSE TryStar(re, i, s, p, k - 1, caps, starts)

\* Regex::captures: the groups of the first match, "" for a group that
\* took no part in it
captures(re, s) ==
    Run(re, 1, s, 1, [g \in 1..NumGroups(re) |-> <<>>],
        [g \in 1..NumGroups(re) |-> 1])

is_match(re, s) == captures(re, s).ok

(***************************************************************************)
(* State.                                                                  *)
(***************************************************************************)
VARIABLES
    routes,          \* Router.routes of each Router: a sequence of Routes
    units,           \* the middleware stack, in registration order
    error_handlers,  \* the registered error handlers, in registration order
    serving,         \* FALSE while the application is being set up
    req,             \* the Request being processed
    res,             \* the Response being built
    chain,           \* "Idle", "Running", "Halted" or "Errored"
    idx,             \* the i of Running(i): the number of units that continued
    err,             \* the error an Errored chain carries
    eh_idx,          \* the number of error handlers that continued
    done,            \* processing of the request has ended
    sent,            \* the final response, once there is one
    invoked,         \* the units invoked for this request, in order
    handled,         \* the error handlers invoked for this request, in order
    last,            \* what the last Router invocation did
    mcall,           \* the last direct call of match_route and its result
    tcall            \* the last direct call of another function under test

vars == <<routes, units, error_handlers, serving, req, res, chain, idx, err,
          eh_idx, done, sent, invoked, handled, last, mcall, tcall>>

None == [tag |-> "None"]
Some(v) == [tag |-> "Some", val |-> v]

Routers == {"r1", "r2"}
Methods == {"Get", "Post"}

(***************************************************************************)
(* Router                                                                  *)
(***************************************************************************)
\* the Route add_route builds
NewRoute_always_appends(method, path, handler) ==
    LET with_format == path \o <<"(", "\\", ".">> \o FORMAT_VAR \o <<")", "?">>
    IN  [path |-> with_format,
         method |-> method,
         matcher |-> create_regex(with_format),
         handler |-> handler,
         variables |-> get_variable_info(with_format)]

NewRoute(method, path, handler) ==
    LET with_format ==
            IF Contains(path, FORMAT_VAR) THEN path
            ELSE path \o <<"(", "\\", ".">> \o FORMAT_VAR \o <<")", "?">>
    IN  [path |-> with_format,
         method |-> method,
         matcher |-> create_regex(with_format),
         handler |-> handler,
         variables |-> get_variable_info(with_format)]

\* find as it would be if it kept the last route that accepts, not the first
FindRoute_last(table, k, method, path) ==
    LET accepting == {j \in k..Len(table) :
                         table[j].method = method /\ is_match(table[j].matcher, path)}
    IN  IF accepting = {} THEN 0
        ELSE CHOOSE j \in accepting : \A l \in accepting : l <= j

\* position of the first route at or after k that the iterator's find accepts,
\* 0 when there is none
RECURSIVE FindRoute(_, _, _, _)
FindRoute(table, k, method, path) ==
    IF k > Len(table) THEN 0
    ELSE IF table[k].method = method /\ is_match(table[k].matcher, path) THEN k
    ELSE FindRoute(table, k + 1, method, path)

\* Router::match_route on the Router self
match_route(self, method, path) ==
    LET k == FindRoute(routes[self], 1, method, path)
    IN  IF k = 0 THEN None
        ELSE LET route == routes[self][k]
                 c == captures(route.matcher, path)
                 n == Cardinality(DOMAIN route.variables)
             IN  Some([route |-> <<self, k>>,
                       params |-> IF c.ok THEN [pos \in 1..n |-> c.caps[pos]]
                                  ELSE <<>>])

\* a failed lookup (fail!, or an index outside params)
Fail == [tag |-> "Fail"]

\* RouteResult::param on the result rr of a match
param(rr, key) ==
    LET route == routes[rr.route[1]][rr.route[2]]
    IN  IF key \in DOMAIN route.variables
        THEN LET pos == route.variables[key] + 1
             IN  IF pos \in 1..Len(rr.params) THEN Some(rr.params[pos]) ELSE Fail
        ELSE Fail

(***************************************************************************)
(* Response                                                                *)
(***************************************************************************)
Ok == 200
NotFound == 404
ImATeapot == 418

HeaderNames == {"ContentType", "Date", "Server"}

\* Response::new: a fresh hyper response (200 OK, no headers, empty body)
Response_new ==
    [status |-> Ok, headers |-> [h \in HeaderNames |-> "absent"], body |-> <<>>]

NoError == [message |-> "", status_code |-> None, response |-> None]

\* a MiddlewareResult: Ok(Continue(res)), Ok(Halt(res)) or Err(err)
Continue(response) == [kind |-> "Continue", res |-> Some(response), err |-> NoError]
Halt(response) == [kind |-> "Halt", res |-> Some(response), err |-> NoError]
Err(e) == [kind |-> "Err", res |-> None, err |-> e]

set_status(self, status) == [self EXCEPT !.status = status]

\* write_all on the response: the bytes are added to the body
write_all(self, bytes) == [self EXCEPT !.body = Append(@, bytes)]

\* headers_mut().set(header): what res.set(header) does for a header modifier
set_header(self, name, value) == [self EXCEPT !.headers[name] = value]

\* set_header_fallback as it would be if it set the header in any case
set_header_fallback_always(self, name, f) ==
    [res |-> set_header(self, name, f), called |-> {name}]

\* Response::set_header_fallback: the producer f is called, and the header
\* set to its value, only if the header is not set; called tells whether f
\* was called
set_header_fallback(self, name, f) ==
    IF self.headers[name] # "absent"
    THEN [res |-> self, called |-> {}]
    ELSE [res |-> set_header(self, name, f), called |-> {name}]

\* Response::set_fallback_headers: Date, Server and ContentType, in that order
set_fallback_headers(self) ==
    LET date == set_header_fallback(self, "Date", "now")
        server == set_header_fallback(date.res, "Server", "Nickel")
        content_type == set_header_fallback(server.res, "ContentType", "Html")
    IN  [res |-> content_type.res,
         called |-> date.called \cup server.called \cup content_type.called]

\* the on_send callbacks f run one after the other from position i down
RECURSIVE RunOnSend(_, _, _)
RunOnSend(self, on_send, i) ==
    IF i = 0 THEN self
    ELSE RunOnSend(set_header(self, on_send[i].name, on_send[i].value), on_send, i - 1)

\* Response::start on a response whose registered on_send callbacks are
\* on_send: they run in reverse order of registration, the fallback headers
\* are set last
start(self, on_send) == set_fallback_headers(RunOnSend(self, on_send, Len(on_send)))

\* a Response with its list of registered callbacks: on_send is the field
\* self.on_send, next numbers the callbacks as they are registered
Response_registered == [res |-> Response_new, on_send |-> <<>>, next |-> 1]

\* Response::on_send: the callback f is pushed at the end of self.on_send
on_send_push(self, f) ==
    [self EXCEPT !.on_send = Append(@, [id |-> self.next, name |-> f.name,
                                        value |-> f.value, child |-> f.child]),
                 !.next = @ + 1]

\* the loop of start: the callbacks taken run from position i down; a
\* callback sets its header and, if it has a child, registers it with on_send
\* on the response it is given; ran lists the callbacks in the order they ran
RECURSIVE RunPending(_, _, _, _)
RunPending(self, taken, i, ran) ==
    IF i = 0 THEN [self |-> self, ran |-> ran]
    ELSE LET f == taken[i]
             set == [self EXCEPT !.res = set_header(@, f.name, f.value)]
             pushed == IF f.child.tag = "Some" THEN on_send_push(set, f.child.val)
                       ELSE set
         IN  RunPending(pushed, taken, i - 1, Append(ran, f.id))

\* start as it would be if it left the callbacks in self.on_send
start_pending_keeps(self) ==
    LET taken == self.on_send
        run == RunPending(self, taken, Len(taken), <<>>)
        fallback == set_fallback_headers(run.self.res)
    IN  [self |-> [run.self EXCEPT !.res = fallback.res], taken |-> taken,
         ran |-> run.ran, before_fallback |-> run.self.res,
         called |-> fallback.called]

\* Response::start on the response with its registered callbacks:
\* mem::replace takes the list and leaves an empty one, the callbacks taken
\* run in reverse order, the fallback headers are set last
start_pending(self) ==
    LET taken == self.on_send
        run == RunPending([self EXCEPT !.on_send = <<>>], taken, Len(taken), <<>>)
        fallback == set_fallback_headers(run.self.res)
    IN  [self |-> [run.self EXCEPT !.res = fallback.res], taken |-> taken,
         ran |-> run.ran, before_fallback |-> run.self.res,
         called |-> fallback.called]

\* mime_from_filename: the media type of the path's extension, if it has one
\* that names a media type
mime_from_filename(path) ==
    CASE path.ext = "txt" -> Some("Txt")
      [] path.ext = "json" -> Some("Json")
      [] path.ext = "bin" -> Some("Bin")
      [] OTHER -> None

\* Response::send_file up to its return: the content type of the file is a
\* fallback (ContentLength, which it removes, is not among HeaderNames),
\* start() runs once, the file is read by a job spawned on the cpupool,
\* whose stream becomes the body, and the result is Halt.  joins tells
\* whether the operation waits for the job before it returns
send_file(self, on_send, path) ==
    LET mime == IF mime_from_filename(path).tag = "Some"
                THEN mime_from_filename(path).val ELSE "Bin"
        typed == set_header_fallback(self, "ContentType", mime)
        st == start(typed.res, on_send)
    IN  [result |-> Halt([st.res EXCEPT !.body = <<[by |-> "file", n |-> 0, text |-> path]>>]),
         started |-> 1, called |-> typed.called \cup st.called, joins |-> FALSE]

\* Response::render up to its return: start() runs once, the template is
\* rendered by a job executed in pool.scoped, which returns when its jobs
\* have run, the receiving end of the job's channel becomes the body, and
\* the result is Halt
render(self, on_send, path) ==
    LET st == start(self, on_send)
    IN  [result |-> Halt([st.res EXCEPT !.body = <<[by |-> "template", n |-> 0, text |-> path]>>]),
         started |-> 1, called |-> st.called, joins |-> TRUE]

\* set_body as it would be if it passed the response on instead of halting
set_body_continues(self, body) == Continue([self EXCEPT !.body = body])

\* set_body as it would be if it failed with the response
set_body_fails(self, body) ==
    Err([message |-> "", status_code |-> Some(ImATeapot),
         response |-> Some([self EXCEPT !.body = body])])

set_body(self, body) == Halt([self EXCEPT !.body = body])

\* Response::set_body up to its return, with what it does for the
\* finalization: start() is not called
set_body_op(self, on_send, body) ==
    [result |-> set_body(self, body), started |-> 0, called |-> {}, joins |-> FALSE]

\* next_middleware as it would be if it ended the chain
next_middleware_halts(self) == Halt(self)

next_middleware(self) == Continue(self)

\* Response::error with the response dropped from the error
error_drops_response(self, status, message) ==
    Err([message |-> message, status_code |-> Some(status), response |-> None])

\* Response::error: NickelError::new(self, message, status)
error(self, status, message) ==
    Err([message |-> message, status_code |-> Some(status), response |-> Some(self)])

\* Response::bail as it would be if the error carried the response and a
\* status
bail_with_response(self, message) ==
    Err([message |-> message, status_code |-> Some(ImATeapot), response |-> Some(self)])

\* Response::bail: NickelError::without_response(message)
bail(self, message) ==
    Err([message |-> message, status_code |-> None, response |-> None])

(***************************************************************************)
(* Application code: what a middleware unit or a route handler does with   *)
(* the response it is given.  A program is an optional set_status followed *)
(* by the Response operation that ends the unit.                           *)
(***************************************************************************)
Programs ==
    { [mod |-> 0, op |-> "next_middleware", status |-> 0],
      [mod |-> NotFound, op |-> "next_middleware", status |-> 0],
      [mod |-> 0, op |-> "set_body", status |-> 0],
      [mod |-> 0, op |-> "error", status |-> ImATeapot],
      [mod |-> NotFound, op |-> "error", status |-> NotFound],
      [mod |-> 0, op |-> "bail", status |-> 0] }

\* the message a program gives with an error
MessageOf(prog) ==
    IF prog.op = "bail" THEN "stream broken"
    ELSE IF prog.status = NotFound THEN "File Not Found" ELSE "Teapot activated!"

\* the response after the program's set_status
Modified(prog, response) ==
    IF prog.mod = 0 THEN response ELSE set_status(response, prog.mod)

\* the MiddlewareResult of running prog on response; who names the writer
RunProgram(prog, response, who) ==
    LET r == Modified(prog, response)
    IN  CASE prog.op = "next_middleware" -> next_middleware(r)
          [] prog.op = "set_body" -> set_body(r, <<who>>)  \* a body of one chunk
          [] prog.op = "error" -> error(r, prog.status, MessageOf(prog))
          [] OTHER -> bail(r, MessageOf(prog))

\* a chunk of body, named by who wrote it
Chunk(by, n, text) == [by |-> by, n |-> n, text |-> text]

(***************************************************************************)
(* Requests                                                                *)
(***************************************************************************)
\* the request_uri of a request is an AbsolutePath or something else ("*")
Request(method, uri, path) ==
    [method |-> method, uri |-> uri, path |-> path, route_result |-> None]

NoRequest == Request("Get", "Star", <<>>)

\* what the handler of route k writes as body: a text built from the path
\* variables it reads from the request it is given
HandlerBody(request, k) ==
    Chunk("handler", k, IF request.route_result.tag = "Some"
                        THEN request.route_result.val.params ELSE <<>>)

\* Router::invoke with every hit passing the handler's result on
invoke_propagates(self, request, response, prog) ==
    LET m == IF request.uri = "AbsolutePath"
             THEN match_route(self, request.method, request.path) ELSE None
    IN  IF m.tag = "Some"
        THEN LET k == m.val.route[2]
                 hr == RunProgram(prog, [response EXCEPT !.status = Ok],
                          HandlerBody([request EXCEPT !.route_result = m], k))
             IN  [result |-> hr,
                  req |-> [request EXCEPT !.route_result = m],
                  hit |-> TRUE, handler_result |-> hr.kind]
        ELSE [result |-> Continue(response), req |-> request,
              hit |-> FALSE, handler_result |-> "none"]

\* The Some(route_result) arm as it would be if the handler ran first and the
\* status and the match were set after it
on_hit_late(self, request, response, prog, m) ==
    LET k == m.val.route[2]
        hr == RunProgram(prog, response, HandlerBody(request, k))
        res2 == IF hr.res.tag = "Some" THEN hr.res.val
                ELSE IF hr.err.response.tag = "Some"
                     THEN hr.err.response.val
                     ELSE Modified(prog, response)
    IN  [result |-> Halt([res2 EXCEPT !.status = Ok]),
         req |-> [request EXCEPT !.route_result = m],
         hit |-> TRUE, handler_result |-> hr.kind]

\* The Some(route_result) arm of Router::invoke: the status is reset to Ok,
\* the match is stored on the request, and the handler runs on the borrowed
\* response; whatever the handler returns, the arm's value is Ok(Halt).
on_hit(self, request, response, prog, m) ==
    LET k == m.val.route[2]
        res1 == [response EXCEPT !.status = Ok]
        req1 == [request EXCEPT !.route_result = m]
        hr == RunProgram(prog, res1, HandlerBody(req1, k))
        res2 == IF hr.res.tag = "Some" THEN hr.res.val
                ELSE IF hr.err.response.tag = "Some"
                     THEN hr.err.response.val
                     ELSE Modified(prog, res1)
    IN  [result |-> Halt(res2),
         req |-> req1,
         hit |-> TRUE, handler_result |-> hr.kind]

\* Router::invoke with a miss answered by halting
invoke_halts_on_miss(self, request, response, prog) ==
    LET m == IF request.uri = "AbsolutePath"
             THEN match_route(self, request.method, request.path) ELSE None
    IN  IF m.tag = "Some"
        THEN on_hit(self, request, response, prog, m)
        ELSE [result |-> Halt([response EXCEPT !.status = NotFound]),
              req |-> request, hit |-> FALSE, handler_result |-> "none"]

\* Router::invoke on the Router self; prog is what the matched handler does.
\* The handler writes through the response it borrows, its own result is
\* dropped, and the Router answers Ok(Halt).
invoke(self, request, response, prog) ==
    IF request.uri = "AbsolutePath"
    THEN LET m == match_route(self, request.method, request.path)
         IN  IF m.tag = "Some"
             THEN on_hit(self, request, response, prog, m)
             ELSE [result |-> Continue(response), req |-> request,
                   hit |-> FALSE, handler_result |-> "none"]
    ELSE [result |-> Continue(response), req |-> request,
          hit |-> FALSE, handler_result |-> "none"]

(***************************************************************************)
(* Error handlers                                                          *)
(***************************************************************************)
\* custom_404 as it would be if it wrote its page and then deferred
custom_404_continues(e) ==
    IF e.response.tag = "Some" /\ e.response.val.status = NotFound
    THEN [action |-> "Continue",
          err |-> [e EXCEPT !.response =
                      Some(write_all(e.response.val,
                                     Chunk("text", 0, "<h1>Call the police!</h1>")))]]
    ELSE [action |-> "Continue", err |-> e]

\* custom_404 of the macro example: answers a NotFound response itself
custom_404(e) ==
    IF e.response.tag = "Some" /\ e.response.val.status = NotFound
    THEN [action |-> "Halt",
          err |-> [e EXCEPT !.response =
                      Some(write_all(e.response.val,
                                     Chunk("text", 0, "<h1>Call the police!</h1>")))]]
    ELSE [action |-> "Continue", err |-> e]

\* what an application's error handler may do
ErrorPrograms == {"continue", "halt", "custom_404"}

\* the application's error handler number j, running eprog
app_handler(e, j, eprog) ==
    CASE eprog = "custom_404" -> custom_404(e)
      [] eprog = "halt" /\ e.response.tag = "Some" ->
            [action |-> "Halt",
             err |-> [e EXCEPT !.response =
                         Some(write_all(e.response.val, Chunk("eh", j, "")))]]
      [] OTHER -> [action |-> "Continue", err |-> e]

\* the built-in default handler: the error's status code and message become
\* the response
default_handler(e) ==
    [action |-> "Halt",
     err |-> [e EXCEPT !.response =
                 Some(write_all(set_status(e.response.val, e.status_code.val),
                                Chunk("text", 0, e.message)))]]

(***************************************************************************)
(* Inputs.                                                                 *)
(***************************************************************************)
\* routes an application registers before it serves
ServeRoutes ==
    { [method |-> "Get", path |-> <<"/", ":", "x">>, handler |-> "h1"] }

\* requests the transport delivers
Requests ==
    { Request("Get", "AbsolutePath", <<"/", "a">>),
      Request("Get", "AbsolutePath", <<"/", "a", "/", "b">>),
      Request("Post", "AbsolutePath", <<"/", "a">>),
      Request("Get", "Star", <<"/", "a">>) }

\* routes and paths for direct calls of match_route
MatchPatterns ==
    { <<"/", "a">>, <<"/", ":", "x">>, <<"/", "a", "/", "*">>, <<"/", "*", "*">> }

MatchPaths ==
    { <<"/", "a">>, <<"/", "b">>, <<"/", "a", "/", "b">>, <<"/", "a", ".", "j">>,
      <<"/", "b", "?", "q", "=", "1">>, <<"a">> }

\* routes, paths and query strings of the router's own tests
RoutePatterns ==
    { <<"/","f","o","o","/",":","u","s","e","r","i","d">>,
      <<"/","b","a","r">>,
      <<"/","f","i","l","e","/",":","f","o","r","m","a","t","/",":","f","i","l","e">>,
      <<"/",":","f","o","r","m","a","t","t","e","d">> }

RoutePaths ==
    { <<"/","f","o","o","/","4","7","1","1">>,
      <<"/","f","o","o","/","1","2","3",",","4","5","6">>,
      <<"/","f","o","o","/","J","o","h","n","%","2","0","D","o","e">>,
      <<"/","f","o","o","/","J","o","h","n","%","2","0","D","o","e",".","j","s","o","n">>,
      <<"/","f","o","o","/","5","4","9","0",",","1","2","3","4",".","c","s","v">>,
      <<"/","f","o","o">>,
      <<"/","b","a","r">>,
      <<"/","b","a","r","/","4","7","1","1">>,
      <<"/","f","i","l","e","/","m","a","r","k","d","o","w","n","/",
        "s","o","m","e","t","h","i","n","g">>,
      <<"/","i","n","d","e","x">> }

RouteQueries ==
    { <<"f","o","o","=","t","r","u","e","&","b","a","r","=","f","a","l","s","e">>,
      <<"i","d","s","=","1",",","2">> }

\* the request path p followed by the query string q
WithQuery(p, q) == p \o <<"?">> \o q

RouteCalls == RoutePaths \cup {WithQuery(p, q) : p \in RoutePaths, q \in RouteQueries}

\* the route and the requests of the custom_error_handler example, and
\* the responses a Router is handed
InvokePatterns ==
    { <<"/","u","s","e","r","/",":","u","s","e","r","i","d">>,
      <<"/",":","x">> }

InvokeRequests ==
    { Request("Get", "AbsolutePath", <<"/","u","s","e","r","/","4","2">>),
      Request("Get", "AbsolutePath", <<"/","u","s","e","r","/","1","9",".","j","s","o","n">>),
      Request("Get", "AbsolutePath", <<"/","n","o","t","/","h","a","n","d","l","e","d">>),
      Request("Post", "AbsolutePath", <<"/","u","s","e","r","/","4","2">>),
      Request("Get", "Star", <<"/","u","s","e","r","/","4","2">>) }

InvokeResponses == { Response_new, set_status(Response_new, NotFound) }

\* patterns with two variables after a literal, a wildcard and a double
\* wildcard, a pattern that names a variable twice, and request paths
IndexPatterns ==
    { <<"/","a","/",":","x","/",":","y">>, <<"/","*","/",":","x","/",":","y">>, <<"/","*","*","/",":","x","/",":","y">>, <<"/",":","x","/",":","x">> }

IndexPaths ==
    { <<"/","a","/","1","/","2">>, <<"/","s","/","1","/","2">>, <<"/","s","/","t","/","1","/","2">>, <<"/","1","/","2">>, <<"/","1","/","2",".","j","s","o","n">>,
      <<"/","s","/","t","/","1","/","2",".","j","s","o","n">>, <<"/","a","/","1">>, <<"/","1">> }

\* requests in flight at the same time, and what the application's units,
\* handlers and error handlers do for a request
FlightIds == {1, 2}

FlightRequests ==
    { Request("Get", "AbsolutePath", <<"/", "a">>),
      Request("Get", "AbsolutePath", <<"/", "a", "/", "b">>) }

Plans ==
    { [mw |-> [mod |-> 0, op |-> "next_middleware", status |-> 0],
       handler |-> [mod |-> 0, op |-> "set_body", status |-> 0],
       eprog |-> "continue"],
      [mw |-> [mod |-> NotFound, op |-> "next_middleware", status |-> 0],
       handler |-> [mod |-> 0, op |-> "error", status |-> ImATeapot],
       eprog |-> "halt"],
      [mw |-> [mod |-> NotFound, op |-> "error", status |-> NotFound],
       handler |-> [mod |-> 0, op |-> "set_body", status |-> 0],
       eprog |-> "custom_404"] }

\* files and templates an application answers with, and the responses it
\* has when it does
FilePaths ==
    { [stem |-> "test", ext |-> "txt"], [stem |-> "test", ext |-> "json"],
      [stem |-> "favicon", ext |-> ""] }

FinalizeResponses ==
    { Response_new,
      set_header(Response_new, "ContentType", "Json"),
      set_header(Response_new, "Server", "Apache") }

\* patterns without variable or wildcard, and request paths
LiteralPatterns == { <<"/","b","a","r">>, <<"/","a",".","b">> }

LiteralPaths ==
    { <<"/","b","a","r">>, <<"/","b","a","r",".","j","s","o","n">>, <<"/","b","a","r","/","4","7","1","1">>, <<"/","b","a","r","?","a","=","1">>, <<"/","b","a","r",".","j","s","o","n","?","a","=","1">>,
      <<"/","b","a","r","X">>, <<"/","b","a">>, <<"/","a",".","b">>, <<"/","a","X","b">>, <<"/","a",".","b",".","j","s","o","n">>, <<"/","a","/","b">>,
      <<"/","a","X","b",".","j","s","o","n","?","a","=","1">>, <<"/","a",".","b","?","a","=","1">> }

\* callbacks an application registers with on_send: each sets a header, the
\* last one also registers a callback when it runs
Callbacks ==
    { [name |-> "Server", value |-> "Apache", child |-> None],
      [name |-> "ContentType", value |-> "Json", child |-> None],
      [name |-> "ContentType", value |-> "Txt",
       child |-> Some([name |-> "Date", value |-> "yesterday", child |-> None])] }

\* headers an application sets, and on_send callbacks that set one
HeaderValues ==
    { [name |-> "ContentType", value |-> "Json"],
      [name |-> "ContentType", value |-> "Txt"],
      [name |-> "Server", value |-> "Apache"],
      [name |-> "Date", value |-> "yesterday"] }

OnSendLists ==
    { <<>>,
      << [name |-> "ContentType", value |-> "Json"] >>,
      << [name |-> "ContentType", value |-> "Json"], [name |-> "ContentType", value |-> "Txt"] >>,
      << [name |-> "Server", value |-> "Apache"] >> }

\* patterns of creates_regex_with_captures and creates_valid_regex_for_routes
CompilePatterns ==
    { <<"f","o","o","/",":","u","i","d","/","b","a","r","/",":","g","r","o","u","p","i","d">>,
      <<"f","o","o","/","*","/","b","a","r">>,
      <<"f","o","o","/","*","*","/","b","a","r">>,
      <<"f","o","o","/","*","/",":","u","i","d","/","b","a","r","/",
        ":","g","r","o","u","p","i","d">> }

\* path segments of those tests
Segments ==
    { <<"4","7","1","1">>,
      <<"5","4","9","0",",","1","2","3","4">>,
      <<"t","e","s","t","%","2","0","s","p","a","c","i","n","g">> }

\* values given to variables: the segments, and a version number
Values == Segments \cup { <<"v","1",".","0">> }

\* the path foo/s1/../sn/bar
RECURSIVE Slashed(_, _)
Slashed(segs, i) ==
    IF i > Len(segs) THEN <<>> ELSE <<"/">> \o segs[i] \o Slashed(segs, i + 1)

FooBar(segs) == <<"f","o","o">> \o Slashed(segs, 1) \o <<"/","b","a","r">>

\* the path a pattern of literals and variables becomes when every :name is
\* replaced by the value a[name]
RECURSIVE Instantiate(_, _, _)
Instantiate(pattern, a, i) ==
    IF i > Len(pattern) THEN <<>>
    ELSE IF pattern[i] = ":"
         THEN a[SubSeq(pattern, i + 1, NameEnd(pattern, i + 1) - 1)]
                  \o Instantiate(pattern, a, NameEnd(pattern, i + 1))
         ELSE <<pattern[i]>> \o Instantiate(pattern, a, i + 1)

UidGroupid == <<"f","o","o","/",":","u","i","d","/","b","a","r","/",":","g","r","o","u","p","i","d">>

Assignments(pattern, vals) ==
    [{VarNames(pattern, 1)[k] : k \in 1..Len(VarNames(pattern, 1))} -> vals]

CompilePaths ==
    {FooBar(segs) : segs \in UNION {[1..n -> Segments] : n \in 0..MaxBetween}}
        \cup {Instantiate(UidGroupid, a, 1) : a \in Assignments(UidGroupid, Values)}

(***************************************************************************)
(* Initial state: a new server, nothing registered, no request.            *)
(***************************************************************************)
NoCall == [method |-> "Get", path |-> <<>>, called |-> FALSE, table |-> <<>>,
           result |-> None]
NoTest == [fn |-> "none"]
NoRouter == [router |-> "", hit |-> FALSE, handler_result |-> "none", result |-> "none"]

Init ==
    /\ routes = [r \in Routers |-> <<>>]
    /\ units = <<>>
    /\ error_handlers = <<>>
    /\ serving = FALSE
    /\ req = NoRequest
    /\ res = Response_new
    /\ chain = "Idle"
    /\ idx = 0
    /\ err = NoError
    /\ eh_idx = 0
    /\ done = FALSE
    /\ sent = None
    /\ invoked = <<>>
    /\ handled = <<>>
    /\ last = NoRouter
    /\ mcall = NoCall
    /\ tcall = NoTest

TotalRoutes == Len(routes["r1"]) + Len(routes["r2"])

Utilized(u) == \E k \in 1..Len(units) : units[k] = u

(***************************************************************************)
(* Setting the application up.                                             *)
(***************************************************************************)
\* add_route as it would be if it put the new route in front of the others
add_route_front(self, method, path, handler) ==
    /\ ~serving
    /\ ~Utilized(self)
    /\ TotalRoutes < MaxRoutes
    /\ routes' = [routes EXCEPT ![self] = <<NewRoute(method, path, handler)>> \o @]
    /\ UNCHANGED <<units, error_handlers, serving, req, res, chain, idx, err,
                   eh_idx, done, sent, invoked, handled, last, mcall, tcall>>

\* HttpRouter::add_route on the Router self, before it is handed to the server
add_route(self, method, path, handler) ==
    /\ ~serving
    /\ ~Utilized(self)
    /\ TotalRoutes < MaxRoutes
    /\ routes' = [routes EXCEPT ![self] = Append(@, NewRoute(method, path, handler))]
    /\ UNCHANGED <<units, error_handlers, serving, req, res, chain, idx, err,
                   eh_idx, done, sent, invoked, handled, last, mcall, tcall>>

\* server.utilize(unit): unit is a Router or an application's middleware
utilize(unit) ==
    /\ ~serving
    /\ Len(units) < MaxUnits
    /\ unit \in Routers => ~Utilized(unit)
    /\ units' = Append(units, unit)
    /\ UNCHANGED <<routes, error_handlers, serving, req, res, chain, idx, err,
                   eh_idx, done, sent, invoked, handled, last, mcall, tcall>>

\* server.handle_error(handler)
handle_error(handler) ==
    /\ ~serving
    /\ Len(error_handlers) < MaxErrorHandlers
    /\ error_handlers' = Append(error_handlers, handler)
    /\ UNCHANGED <<routes, units, serving, req, res, chain, idx, err,
                   eh_idx, done, sent, invoked, handled, last, mcall, tcall>>

\* server.listen(..)
listen ==
    /\ ~serving
    /\ serving' = TRUE
    /\ UNCHANGED <<routes, units, error_handlers, req, res, chain, idx, err,
                   eh_idx, done, sent, invoked, handled, last, mcall, tcall>>

\* a direct call of match_route on the Router r1
call_match_route(method, path) ==
    /\ ~serving
    /\ mcall' = [method |-> method, path |-> path, called |-> TRUE,
                 table |-> routes["r1"],
                 result |-> match_route("r1", method, path)]
    /\ UNCHANGED <<routes, units, error_handlers, serving, req, res, chain, idx,
                   err, eh_idx, done, sent, invoked, handled, last, tcall>>

\* a direct call of create_regex and get_variable_info on a pattern, and of
\* the compiled regex on a path
call_create_regex(route_path, path) ==
    /\ ~serving
    /\ LET regex == create_regex(route_path)
           c == captures(regex, path)
       IN  tcall' = [fn |-> "create_regex", route_path |-> route_path, path |-> path,
                     is_match |-> is_match(regex, path),
                     captures |-> IF c.ok THEN Some(c.caps) ELSE None,
                     variables |-> get_variable_info(route_path)]
    /\ UNCHANGED <<routes, units, error_handlers, serving, req, res, chain, idx,
                   err, eh_idx, done, sent, invoked, handled, last, mcall>>

\* a direct call of Router::invoke on the Router r1, with a handler that
\* runs prog
call_invoke(request, response, prog) ==
    /\ ~serving
    /\ tcall' = [fn |-> "invoke", request |-> request, given |-> response,
                 prog |-> prog, table |-> routes["r1"],
                 out |-> invoke("r1", request, response, prog)]
    /\ UNCHANGED <<routes, units, error_handlers, serving, req, res, chain, idx,
                   err, eh_idx, done, sent, invoked, handled, last, mcall>>

\* calls on a Response under test: res.set(header), set_header_fallback, start
call_set(name, value) ==
    /\ ~serving
    /\ res' = set_header(res, name, value)
    /\ tcall' = [fn |-> "set", name |-> name, value |-> value, on_send |-> <<>>,
                 before |-> res, after |-> res', called |-> {}]
    /\ UNCHANGED <<routes, units, error_handlers, serving, req, chain, idx,
                   err, eh_idx, done, sent, invoked, handled, last, mcall>>

call_set_header_fallback(name, f) ==
    /\ ~serving
    /\ LET out == set_header_fallback(res, name, f)
       IN  /\ res' = out.res
           /\ tcall' = [fn |-> "set_header_fallback", name |-> name, value |-> f,
                        on_send |-> <<>>, before |-> res, after |-> out.res,
                        called |-> out.called]
    /\ UNCHANGED <<routes, units, error_handlers, serving, req, chain, idx,
                   err, eh_idx, done, sent, invoked, handled, last, mcall>>

call_start(on_send) ==
    /\ ~serving
    /\ LET out == start(res, on_send)
       IN  /\ res' = out.res
           /\ tcall' = [fn |-> "start", name |-> "", value |-> "", on_send |-> on_send,
                        before |-> res, after |-> out.res, called |-> out.called]
    /\ UNCHANGED <<routes, units, error_handlers, serving, req, chain, idx,
                   err, eh_idx, done, sent, invoked, handled, last, mcall>>

\* a new Response is taken under test
call_new ==
    /\ ~serving
    /\ res' = Response_new
    /\ tcall' = NoTest
    /\ UNCHANGED <<routes, units, error_handlers, serving, req, chain, idx,
                   err, eh_idx, done, sent, invoked, handled, last, mcall>>

\* the state of the chain after a unit returned result
ChainAfter(result) ==
    CASE result.kind = "Halt" -> "Halted"
      [] result.kind = "Continue" -> "Running"
      [] OTHER -> "Errored"

\* the Response under test with its registered callbacks, and the calls of
\* start() made on it so far
Registered == IF tcall.fn = "on_send" THEN tcall.self ELSE Response_registered

Starts == IF tcall.fn = "on_send" THEN tcall.log ELSE <<>>

\* res.on_send(f) on the Response under test
call_on_send(f) ==
    /\ ~serving
    /\ Registered.next <= MaxOnSend
    /\ tcall' = [fn |-> "on_send", self |-> on_send_push(Registered, f),
                 log |-> Starts]
    /\ UNCHANGED <<routes, units, error_handlers, serving, req, res, chain, idx,
                   err, eh_idx, done, sent, invoked, handled, last, mcall>>

\* res.start() on the Response under test
call_start_pending ==
    /\ ~serving
    /\ Len(Starts) < MaxStarts
    /\ LET out == start_pending(Registered)
       IN  tcall' = [fn |-> "on_send", self |-> out.self,
                     log |-> Append(Starts,
                                [given |-> Registered, taken |-> out.taken,
                                 ran |-> out.ran,
                                 before_fallback |-> out.before_fallback,
                                 after |-> out.self])]
    /\ UNCHANGED <<routes, units, error_handlers, serving, req, res, chain, idx,
                   err, eh_idx, done, sent, invoked, handled, last, mcall>>

\* what the operation op computes up to its return
OpOut(op, response, on_send, path) ==
    CASE op = "send_file" -> send_file(response, on_send, path)
      [] op = "render" -> render(response, on_send, path)
      [] OTHER -> set_body_op(response, on_send,
                              <<[by |-> "body", n |-> 0, text |-> path]>>)

\* a unit's handler calls an operation that ends with a body.  An operation
\* with a deferred body has queued its job; one that joins waits for it
Finalize(op, response, on_send, path) ==
    /\ ~serving
    /\ LET out == OpOut(op, response, on_send, path)
           worker == IF op = "set_body" THEN "none" ELSE "queued"
       IN  tcall' = [fn |-> "finalize", op |-> op, given |-> response,
                     on_send |-> on_send, path |-> path, out |-> out,
                     worker |-> worker,
                     pc |-> IF worker = "none" THEN "returned"
                            ELSE IF out.joins THEN "joining" ELSE "spawned",
                     chain |-> IF worker = "none" THEN ChainAfter(out.result)
                               ELSE "Running"]
    /\ UNCHANGED <<routes, units, error_handlers, serving, req, res, chain, idx,
                   err, eh_idx, done, sent, invoked, handled, last, mcall>>

call_send_file(response, on_send, path) ==
    Finalize("send_file", response, on_send, path)

call_render(response, on_send, path) ==
    Finalize("render", response, on_send, path)

call_set_body(response, on_send, path) ==
    Finalize("set_body", response, on_send, path)

\* the queued job runs on its pool: the file is opened and read, or the
\* template rendered, and this succeeds (ok) or fails
worker_run(ok) ==
    /\ tcall.fn = "finalize"
    /\ tcall.worker = "queued"
    /\ tcall' = [tcall EXCEPT !.worker = IF ok THEN "done" ELSE "failed"]
    /\ UNCHANGED <<routes, units, error_handlers, serving, req, res, chain, idx,
                   err, eh_idx, done, sent, invoked, handled, last, mcall>>

\* the operation returns its result to the chain; one that joins returns
\* when its job has run
handler_return ==
    /\ tcall.fn = "finalize"
    /\ \/ tcall.pc = "spawned"
       \/ tcall.pc = "joining" /\ tcall.worker \in {"done", "failed"}
    /\ tcall' = [tcall EXCEPT !.pc = "returned",
                              !.chain = ChainAfter(tcall.out.result)]
    /\ UNCHANGED <<routes, units, error_handlers, serving, req, res, chain, idx,
                   err, eh_idx, done, sent, invoked, handled, last, mcall>>

(***************************************************************************)
(* Serving: the middleware chain (states Running(i), Halted, Errored) and   *)
(* the error handler chain.                                                *)
(***************************************************************************)
\* the transport delivers one Request/Response pair into the chain
receive(request) ==
    /\ serving
    /\ chain = "Idle" \/ done
    /\ req' = request
    /\ res' = Response_new
    /\ chain' = "Running"
    /\ idx' = 0
    /\ err' = NoError
    /\ eh_idx' = 0
    /\ done' = FALSE
    /\ sent' = None
    /\ invoked' = <<>>
    /\ handled' = <<>>
    /\ last' = NoRouter
    /\ UNCHANGED <<routes, units, error_handlers, serving, mcall, tcall>>

\* the chain's transition on the result of unit number idx
Transition(result) ==
    CASE result.kind = "Continue" ->
            /\ idx' = idx + 1
            /\ res' = result.res.val
            /\ UNCHANGED <<chain, err, eh_idx, done, sent>>
      [] result.kind = "Halt" ->
            /\ chain' = "Halted"
            /\ res' = result.res.val
            /\ done' = TRUE
            /\ sent' = result.res
            /\ UNCHANGED <<idx, err, eh_idx>>
      [] OTHER ->
            /\ chain' = "Errored"
            /\ err' = result.err
            /\ eh_idx' = 0
            /\ UNCHANGED <<idx, res, done, sent>>

Running == serving /\ chain = "Running" /\ ~done

\* the chain is at a unit of one of the kinds
AtUnit(kinds) == Running /\ idx < Len(units) /\ units[idx + 1] \in kinds

\* unit idx is an application's middleware, and runs prog
invoke_middleware(prog) ==
    /\ AtUnit({"mw"})
    /\ LET result == RunProgram(prog, res, Chunk("unit", idx, ""))
       IN  /\ invoked' = Append(invoked,
                  [i |-> idx, unit |-> "mw", op |-> prog.op, status |-> prog.status,
                   message |-> IF prog.op \in {"error", "bail"} THEN MessageOf(prog)
                               ELSE "",
                   given |-> Modified(prog, res), kind |-> result.kind,
                   res |-> result.res, hit |-> FALSE, handler_result |-> "none",
                   route_result |-> req.route_result])
           /\ Transition(result)
    /\ UNCHANGED <<routes, units, error_handlers, serving, req, handled, last, mcall, tcall>>

\* unit idx is a Router; prog is what the matched handler does
invoke_router(prog) ==
    /\ AtUnit(Routers)
    /\ LET self == units[idx + 1]
           out == invoke(self, req, res, prog)
       IN  /\ req' = out.req
           /\ last' = [router |-> self, hit |-> out.hit,
                       handler_result |-> out.handler_result,
                       result |-> out.result.kind]
           /\ invoked' = Append(invoked,
                  [i |-> idx, unit |-> self, op |-> "invoke", status |-> 0,
                   message |-> "", given |-> res, kind |-> out.result.kind,
                   res |-> out.result.res, hit |-> out.hit,
                   handler_result |-> out.handler_result,
                   route_result |-> out.req.route_result])
           /\ Transition(out.result)
    /\ UNCHANGED <<routes, units, error_handlers, serving, handled, mcall, tcall>>

\* the response sent when no unit answered
NotFoundResponse ==
    write_all(set_status(Response_new, NotFound), Chunk("text", 0, "Not Found"))

\* Running(N): no unit is left
AtEnd == Running /\ idx = Len(units)

end_of_chain ==
    /\ AtEnd
    /\ chain' = "Halted"
    /\ res' = IF res = Response_new THEN NotFoundResponse ELSE res
    /\ sent' = Some(res')
    /\ done' = TRUE
    /\ UNCHANGED <<routes, units, error_handlers, serving, req, idx, err, eh_idx,
                   invoked, handled, last, mcall, tcall>>

Errored == serving /\ chain = "Errored" /\ ~done

\* the error can be handed to handler number eh_idx + 1, to the default
\* handler, or to none
AtHandler == Errored /\ err.response.tag = "Some" /\ eh_idx < Len(error_handlers)
AtDefault == Errored /\ err.response.tag = "Some" /\ eh_idx = Len(error_handlers)
AtAbandon == Errored /\ err.response.tag = "None"

\* the outcome out of error handler h (0: the default handler) that ran eprog
Handled(h, eprog, out) ==
    /\ handled' = Append(handled, [h |-> h, eprog |-> eprog, given |-> err.response,
                                   action |-> out.action, res |-> out.err.response])
    /\ err' = out.err
    /\ IF out.action = "Halt"
       THEN /\ chain' = "Halted"
            /\ res' = out.err.response.val
            /\ sent' = out.err.response
            /\ done' = TRUE
            /\ UNCHANGED eh_idx
       ELSE /\ eh_idx' = eh_idx + 1
            /\ UNCHANGED <<chain, res, sent, done>>

\* the next registered error handler receives the error
run_error_handler(eprog) ==
    /\ AtHandler
    /\ Handled(eh_idx + 1, eprog, app_handler(err, eh_idx + 1, eprog))
    /\ UNCHANGED <<routes, units, error_handlers, serving, req, idx, invoked,
                   last, mcall, tcall>>

\* every registered handler continued
run_default_handler ==
    /\ AtDefault
    /\ Handled(0, "default", default_handler(err))
    /\ UNCHANGED <<routes, units, error_handlers, serving, req, idx, invoked,
                   last, mcall, tcall>>

\* an error without a response: nothing more can be written
abandon ==
    /\ AtAbandon
    /\ done' = TRUE
    /\ UNCHANGED <<routes, units, error_handlers, serving, req, res, chain, idx,
                   err, eh_idx, sent, invoked, handled, last, mcall, tcall>>

(***************************************************************************)
(* Several requests in flight: every request has its own Request and       *)
(* Response, its own place in the chain and its own error; the route       *)
(* tables, the units and the error handlers are shared.                    *)
(***************************************************************************)
NoPlan == [mw |-> [mod |-> 0, op |-> "next_middleware", status |-> 0],
           handler |-> [mod |-> 0, op |-> "next_middleware", status |-> 0],
           eprog |-> "continue"]

IdleFlight ==
    [active |-> FALSE, request |-> NoRequest, plan |-> NoPlan,
     table |-> [r \in Routers |-> <<>>], req |-> NoRequest,
     res |-> Response_new, chain |-> "Idle", idx |-> 0, err |-> NoError,
     eh_idx |-> 0, done |-> FALSE, steps |-> 0, ran |-> <<>>]

\* the state of a request the transport has just delivered; table is the
\* route tables as they are at that time
FreshFlight(request, plan) ==
    [active |-> TRUE, request |-> request, plan |-> plan, table |-> routes,
     req |-> request,
     res |-> Response_new, chain |-> "Running", idx |-> 0, err |-> NoError,
     eh_idx |-> 0, done |-> FALSE, steps |-> 0, ran |-> <<>>]

Flights == IF tcall.fn = "flights" THEN tcall.flights
           ELSE [f \in FlightIds |-> IdleFlight]

\* the chain's transition of flight fl on a unit's result
FlightTransition(fl, result) ==
    CASE result.kind = "Continue" ->
            [fl EXCEPT !.idx = fl.idx + 1, !.res = result.res.val]
      [] result.kind = "Halt" ->
            [fl EXCEPT !.chain = "Halted", !.res = result.res.val, !.done = TRUE]
      [] OTHER ->
            [fl EXCEPT !.chain = "Errored", !.err = result.err, !.eh_idx = 0]

\* the outcome out of an error handler, for flight fl
FlightHandled(fl, out) ==
    IF out.action = "Halt"
    THEN [fl EXCEPT !.err = out.err, !.chain = "Halted",
                    !.res = out.err.response.val, !.done = TRUE]
    ELSE [fl EXCEPT !.err = out.err, !.eh_idx = fl.eh_idx + 1]

\* the logger of the macro example: it prints the request and passes the
\* response on
logger(response) == next_middleware(response)

\* the units of us that are the application's own, the loggers left out
OwnUnits(us) == SelectSeq(us, LAMBDA u : u # "logger")

\* one step of the processing of flight fl by the units us: the next unit,
\* the end of the chain, or the next error handler.  An application's unit
\* is named by its place among the units that are not loggers; ran is the
\* list of the units that ran
ChainStep(us, fl) ==
    LET nxt ==
          IF fl.chain = "Running"
          THEN IF fl.idx < Len(us)
               THEN LET unit == us[fl.idx + 1]
                        name == Len(OwnUnits(SubSeq(us, 1, fl.idx + 1)))
                        at == [fl EXCEPT !.ran = Append(fl.ran,
                                  IF unit = "logger" THEN 0 ELSE name)]
                    IN  IF unit \in Routers
                        THEN LET out == invoke(unit, fl.req, fl.res, fl.plan.handler)
                             IN  FlightTransition([at EXCEPT !.req = out.req],
                                                  out.result)
                        ELSE IF unit = "logger"
                             THEN FlightTransition(at, logger(fl.res))
                             ELSE FlightTransition(at,
                                      RunProgram(fl.plan.mw, fl.res,
                                                 Chunk("unit", name, "")))
               ELSE [fl EXCEPT !.chain = "Halted", !.done = TRUE,
                               !.res = IF fl.res = Response_new
                                       THEN NotFoundResponse ELSE fl.res]
          ELSE IF fl.err.response.tag = "None"
               THEN [fl EXCEPT !.done = TRUE]
               ELSE IF fl.eh_idx < Len(error_handlers)
                    THEN FlightHandled(fl, app_handler(fl.err, fl.eh_idx + 1,
                                                       fl.plan.eprog))
                    ELSE FlightHandled(fl, default_handler(fl.err))
    IN  [nxt EXCEPT !.steps = fl.steps + 1]

\* one step of the processing of flight fl by the units of the application
FlightStep(fl) == ChainStep(units, fl)

\* the flight whose Request and Response the processing of flight f is
\* handed as one shared by every flight would be
Instance_shared(f) == 1

\* the flight whose Request and Response the processing of flight f is
\* handed: its own
Instance(f) == f

\* the transport delivers a request while others are in flight
flight_receive(f, request, plan) ==
    /\ serving
    /\ ~Flights[f].active \/ Flights[f].done
    /\ tcall' = [fn |-> "flights",
                 flights |-> [Flights EXCEPT ![f] = FreshFlight(request, plan)]]
    /\ UNCHANGED <<routes, units, error_handlers, serving, req, res, chain, idx,
                   err, eh_idx, done, sent, invoked, handled, last, mcall>>

\* the processing of flight f takes its next step
flight_step(f) ==
    /\ serving
    /\ Flights[f].active /\ ~Flights[f].done
    /\ LET own == Flights[Instance(f)]
           fl == [Flights[f] EXCEPT !.req = own.req, !.res = own.res]
       IN  tcall' = [fn |-> "flights",
                     flights |-> [Flights EXCEPT ![f] = FlightStep(fl)]]
    /\ UNCHANGED <<routes, units, error_handlers, serving, req, res, chain, idx,
                   err, eh_idx, done, sent, invoked, handled, last, mcall>>

(***************************************************************************)
(* Specifications.                                                         *)
(***************************************************************************)
Setup ==
    \/ \E self \in Routers, r \in ServeRoutes :
           add_route(self, r.method, r.path, r.handler)
    \/ \E unit \in Routers \cup {"mw"} : utilize(unit)
    \/ handle_error("app")
    \/ listen

Process ==
    \/ \E prog \in Programs : invoke_middleware(prog)
    \/ \E prog \in Programs : invoke_router(prog)
    \/ end_of_chain
    \/ \E eprog \in ErrorPrograms : run_error_handler(eprog)
    \/ run_default_handler
    \/ abandon

Next ==
    \/ Setup
    \/ \E request \in Requests : receive(request)
    \/ Process

Spec == Init /\ [][Next]_vars

\* a Router under test: routes are added and match_route is called
MatchNext ==
    \/ \E method \in Methods, path \in MatchPatterns :
           add_route("r1", method, path, "h1")
    \/ \E method \in Methods, path \in MatchPaths : call_match_route(method, path)

MatchSpec == Init /\ [][MatchNext]_vars

\* a Router under test with the routes and request paths of the router's tests
RouteNext ==
    \/ \E path \in RoutePatterns : add_route("r1", "Get", path, "h1")
    \/ \E path \in RouteCalls : call_match_route("Get", path)

RouteSpec == Init /\ [][RouteNext]_vars

\* a Router under test with patterns of several variables
IndexNext ==
    \/ \E path \in IndexPatterns : add_route("r1", "Get", path, "h1")
    \/ \E path \in IndexPaths : call_match_route("Get", path)

IndexSpec == Init /\ [][IndexNext]_vars

\* an application that serves several requests at the same time
FlightNext ==
    \/ \E r \in ServeRoutes : add_route("r1", r.method, r.path, r.handler)
    \/ \E unit \in {"r1", "mw"} : utilize(unit)
    \/ handle_error("app")
    \/ listen
    \/ \E f \in FlightIds, request \in FlightRequests, plan \in Plans :
           flight_receive(f, request, plan)
    \/ \E f \in FlightIds : flight_step(f)

FlightSpec == Init /\ [][FlightNext]_vars

\* a Response under test with the operations that end with a body
FinalizeNext ==
    \/ \E response \in FinalizeResponses, on_send \in OnSendLists, path \in FilePaths :
           \/ call_send_file(response, on_send, path)
           \/ call_render(response, on_send, path)
           \/ call_set_body(response, on_send, path)
    \/ \E ok \in BOOLEAN : worker_run(ok)
    \/ handler_return

FinalizeSpec == Init /\ [][FinalizeNext]_vars

\* an application that utilizes loggers among its units, and serves requests
LoggerNext ==
    \/ \E r \in ServeRoutes : add_route("r1", r.method, r.path, r.handler)
    \/ \E unit \in {"r1", "mw", "logger"} : utilize(unit)
    \/ handle_error("app")
    \/ listen
    \/ \E request \in FlightRequests, plan \in Plans : flight_receive(1, request, plan)
    \/ flight_step(1)

LoggerSpec == Init /\ [][LoggerNext]_vars

\* a Router under test with patterns without variable or wildcard
LiteralNext ==
    \/ \E path \in LiteralPatterns : add_route("r1", "Get", path, "h1")
    \/ \E path \in LiteralPaths : call_match_route("Get", path)

LiteralSpec == Init /\ [][LiteralNext]_vars

\* a Router under test as a middleware unit
InvokeNext ==
    \/ \E path \in InvokePatterns : add_route("r1", "Get", path, "h1")
    \/ \E request \in InvokeRequests, response \in InvokeResponses, prog \in Programs :
           call_invoke(request, response, prog)

InvokeSpec == Init /\ [][InvokeNext]_vars

\* a Response under test with callbacks registered and start() called
OnSendNext ==
    \/ \E f \in Callbacks : call_on_send(f)
    \/ call_start_pending

OnSendSpec == Init /\ [][OnSendNext]_vars

\* a Response under test
HeaderNext ==
    \/ \E h \in HeaderValues : call_set(h.name, h.value)
    \/ \E h \in HeaderValues : call_set_header_fallback(h.name, h.value)
    \/ \E on_send \in OnSendLists : call_start(on_send)
    \/ call_new

HeaderSpec == Init /\ [][HeaderNext]_vars

\* the pattern compiler under test
CompileNext ==
    \E route_path \in CompilePatterns, path \in CompilePaths :
        call_create_regex(route_path, path)

CompileSpec == Init /\ [][CompileNext]_vars

(***************************************************************************)
(* Properties.                                                             *)
(***************************************************************************)
\* route k of table t accepts (method, path)
Accepts(t, k, method, path) ==
    t[k].method = method /\ is_match(t[k].matcher, path)

\* C1: match_route returns the earliest-registered route whose method is the
\* request's and whose matcher matches the path, and nothing when there is
\* no such route; a later route that matches too never wins.
C1_FirstMatchWins ==
    mcall.called =>
        LET t == mcall.table
            Hit(k) == Accepts(t, k, mcall.method, mcall.path)
        IN  IF \E k \in 1..Len(t) : Hit(k)
            THEN /\ mcall.result.tag = "Some"
                 /\ mcall.result.val.route[1] = "r1"
                 /\ LET k == mcall.result.val.route[2]
                    IN  /\ k \in 1..Len(t)
                        /\ Hit(k)
                        /\ \A j \in 1..(k - 1) : ~Hit(j)
            ELSE mcall.result = None

\* C1 witness: P1 was registered before P2, the path matches both under the
\* request's method, and P1's route was returned.
C1_Witness ==
    /\ mcall.called
    /\ Len(mcall.table) >= 2
    /\ mcall.table[1].path # mcall.table[2].path
    /\ Accepts(mcall.table, 1, mcall.method, mcall.path)
    /\ Accepts(mcall.table, 2, mcall.method, mcall.path)
    /\ mcall.result.tag = "Some"
    /\ mcall.result.val.route = <<"r1", 1>>

\* the number of units invoked so far for the request
N == Len(invoked)

\* C2: once the unit at index i answers with Halt(r) (set_body is the
\* operation that does), the chain is Halted, the request has ended, no unit
\* with a greater index has been invoked, and the response sent is exactly r.
C2_HaltEndsChain ==
    \A k \in 1..N :
        (invoked[k].kind = "Halt" \/ invoked[k].op = "set_body") =>
            /\ k = N
            /\ invoked[k].i = k - 1
            /\ chain = "Halted"
            /\ done
            /\ sent = invoked[k].res
            /\ res = sent.val
            /\ invoked[k].op = "set_body" =>
                   sent.val.body = <<Chunk("unit", k - 1, "")>>

\* C2 witness: the chain [A -> Continue, B -> Halt, C]: A and B ran, C did
\* not, and B's response was sent.
C2_Witness ==
    /\ Len(units) = 3
    /\ units[2] = "mw"
    /\ N = 2
    /\ invoked[1].kind = "Continue"
    /\ invoked[2].op = "set_body"
    /\ done
    /\ sent.val.body = <<Chunk("unit", 1, "")>>

\* C3: when the unit at index i ends with error(status, message), the chain is
\* Errored with exactly that status, that message and the response the unit
\* held; the Error Handler Chain takes over (the request ends only through an
\* error handler), and no unit with a greater index is invoked.
C3_ErrorEntersErrored ==
    \A k \in 1..N :
        invoked[k].op = "error" =>
            /\ k = N
            /\ invoked[k].kind = "Err"
            /\ chain \in {"Errored", "Halted"}
            /\ err.status_code = Some(invoked[k].status)
            /\ err.message = invoked[k].message
            /\ handled = <<>> =>
                   /\ chain = "Errored"
                   /\ ~done
                   /\ err.response = Some(invoked[k].given)
            /\ handled # <<>> => handled[1].given = Some(invoked[k].given)
            /\ done => chain = "Halted" /\ handled # <<>>

\* C3 witness: the chain [A -> Continue, B -> Error, C]: A ran, B's error
\* reached an error handler, C did not run.
C3_Witness ==
    /\ Len(units) = 3
    /\ N = 2
    /\ invoked[1].kind = "Continue"
    /\ invoked[2].op = "error"
    /\ handled # <<>>
    /\ done

\* the request ended because a unit bailed: the error has no response, no
\* error handler ran and nothing was sent
Bailed ==
    /\ N > 0
    /\ invoked[N].op = "bail"
    /\ chain = "Errored"
    /\ handled = <<>>
    /\ sent = None

\* C4 as stated: whatever the units and handlers return, a request that has
\* ended has ended in Halted with a final response.
C4_AlwaysHalted == done => chain = "Halted" /\ sent.tag = "Some"

\* a request has been accepted and has not ended
Pending == serving /\ chain \in {"Running", "Errored"} /\ ~done

\* an upper bound of the number of steps a request still takes
Remaining ==
    IF ~Pending THEN 0
    ELSE IF chain = "Running"
         THEN (Len(units) - idx) + Len(error_handlers) + 3
         ELSE (Len(error_handlers) - eh_idx) + 2

\* some step of Process can be taken
CanStep ==
    AtUnit({"mw"}) \/ AtUnit(Routers) \/ AtEnd \/ AtHandler \/ AtDefault \/ AtAbandon

\* C4, what holds: every accepted request ends (a step is possible while it
\* is pending, and each step brings the end nearer); it ends in Halted with a
\* final response, unless a unit ended with bail, and then it ends Errored
\* with no error handler invoked and no response.
C4_EndsHaltedOrBailed ==
    /\ [](done => (chain = "Halted" /\ sent.tag = "Some" /\ sent.val = res) \/ Bailed)
    /\ [](Pending => CanStep)
    /\ [][Process => Remaining' < Remaining]_vars

\* C4 witness: a request that ended by a bail although an error handler is
\* registered.
C4_Witness == done /\ Bailed /\ Len(error_handlers) > 0 /\ N > 1

\* the number of error handlers invoked so far for the request
H == Len(handled)

\* C5: error handlers run in registration order, and the first one that
\* halts ends the chain: its response is the one sent, and no later handler
\* and not the default handler runs.  custom_404 halts exactly on a response
\* whose status is NotFound, after writing its page.
C5_FirstHaltingHandlerWins ==
    \A k \in 1..H :
        /\ handled[k].h # 0 => handled[k].h = k /\ k <= Len(error_handlers)
        /\ handled[k].h = 0 => k = Len(error_handlers) + 1
        /\ k < H => handled[k].action = "Continue"
        /\ handled[k].eprog = "custom_404" =>
               IF handled[k].given.val.status = NotFound
               THEN /\ handled[k].action = "Halt"
                    /\ handled[k].res.val.body =
                           Append(handled[k].given.val.body,
                                  Chunk("text", 0, "<h1>Call the police!</h1>"))
               ELSE handled[k].action = "Continue"
        /\ handled[k].action = "Continue" => handled[k].res = handled[k].given
        /\ handled[k].action = "Halt" =>
               /\ k = H
               /\ chain = "Halted"
               /\ done
               /\ sent = handled[k].res
               /\ res = sent.val

\* C5 witness: the chain [H1 -> Continue, H2 -> Halt] of error handlers: H2's
\* response was sent and the default handler did not run.
C5_Witness ==
    /\ Len(error_handlers) = 2
    /\ H = 2
    /\ handled[1].action = "Continue"
    /\ handled[2].h = 2
    /\ handled[2].eprog = "custom_404"
    /\ handled[2].action = "Halt"
    /\ done
    /\ sent.val.body = <<Chunk("text", 0, "<h1>Call the police!</h1>")>>

\* the request is in error with an error that has a status code
InHandlerError ==
    /\ N > 0
    /\ invoked[N].kind = "Err"
    /\ err.status_code.tag = "Some"

\* the runs of the default handler for the request
DefaultRuns == {k \in 1..H : handled[k].h = 0}

\* C6: when the chain is Errored with error e and every registered error
\* handler continued (also when none is registered), the default handler runs
\* exactly once, the outcome is Halt, and the response sent has e's status
\* code and e's message as body.
C6_DefaultHandler ==
    /\ Cardinality(DefaultRuns) <= 1
    /\ (InHandlerError /\ eh_idx = Len(error_handlers)) =>
           /\ ~done => chain = "Errored" /\ DefaultRuns = {}
           /\ done =>
                  /\ DefaultRuns = {H}
                  /\ handled[H].action = "Halt"
                  /\ chain = "Halted"
                  /\ sent.tag = "Some"
                  /\ sent.val.status = invoked[N].status
                  /\ sent.val.body = <<Chunk("text", 0, invoked[N].message)>>
                  /\ sent.val.headers = invoked[N].given.headers

\* C6 witness: two registered handlers continued and the default handler
\* answered with the error's status and message.
C6_Witness ==
    /\ InHandlerError
    /\ Len(error_handlers) = 2
    /\ H = 3
    /\ handled[3].h = 0
    /\ done
    /\ sent.val.status = ImATeapot
    /\ sent.val.body = <<Chunk("text", 0, "Teapot activated!")>>

\* unit k passed the request on: a middleware that ended with
\* next_middleware, or a Router that found no route
Passed(k) ==
    \/ invoked[k].op = "next_middleware"
    \/ invoked[k].op = "invoke" /\ ~invoked[k].hit

\* the response the chain holds after the units invoked so far continued
Current == IF N = 0 THEN Response_new ELSE invoked[N].given

C7_WitnessTouched ==
    /\ done
    /\ N = Len(units)
    /\ \A k \in 1..N : Passed(k)
    /\ Current # Response_new
    /\ sent.val = Current

\* C8 as stated: on a hit the Router answers the chain with the result the
\* matched handler produced.
C8_RouterPropagates ==
    last.hit => last.result = last.handler_result

\* C8, what the code does: on a hit the Router answers Halt whatever the
\* handler produced.
C8_RouterAlwaysHalts ==
    last.hit => last.result = "Halt" /\ chain = "Halted" /\ handled = <<>>

\* C8 witness: a handler that ended with an error, under a Router that
\* answered Halt.
C8_Witness == last.hit /\ last.handler_result = "Err" /\ last.result = "Halt"

\* the MatchResult stored on the request before unit k ran
StoredBefore(k) == IF k = 1 THEN None ELSE invoked[k - 1].route_result

\* no route of the Router self matches the request's method and path
NoRouteMatches(self) ==
    \A j \in 1..Len(routes[self]) : ~Accepts(routes[self], j, req.method, req.path)

\* C9: when no route matches, the Router answers Continue, invokes no
\* handler, and leaves the response and the request's MatchResult as they
\* were; the next unit is the one registered after the Router, and the miss
\* does not put the chain in Errored.
C9_MissContinues ==
    \A k \in 1..N :
        (invoked[k].op = "invoke" /\ (NoRouteMatches(invoked[k].unit) \/ ~invoked[k].hit)) =>
            /\ ~invoked[k].hit
            /\ invoked[k].kind = "Continue"
            /\ invoked[k].handler_result = "none"
            /\ invoked[k].res = Some(invoked[k].given)
            /\ invoked[k].route_result = StoredBefore(k)
            /\ k = N =>
                   /\ idx = invoked[k].i + 1
                   /\ req.route_result = StoredBefore(k)
                   /\ chain # "Errored"
                   /\ handled = <<>>
                   /\ ~done => chain = "Running" /\ res = invoked[k].given
            /\ k < N => invoked[k + 1].i = invoked[k].i + 1

\* C9 witness: a Router that holds a route missed (the method differs), and
\* the unit registered after it ran next.
C9_Witness ==
    /\ N >= 2
    /\ invoked[1].op = "invoke"
    /\ ~invoked[1].hit
    /\ routes[invoked[1].unit] # <<>>
    /\ NoRouteMatches(invoked[1].unit)
    /\ req.uri = "AbsolutePath"
    /\ invoked[2].i = 1

QueryAt(s) ==
    IF \E i \in 1..Len(s) : s[i] = "?"
    THEN CHOOSE i \in 1..Len(s) : s[i] = "?" /\ \A j \in 1..(i - 1) : s[j] # "?"
    ELSE 0

HasQuery(s) == QueryAt(s) # 0

\* the path of a request target: what precedes the query string
PathOf(s) == IF HasQuery(s) THEN SubSeq(s, 1, QueryAt(s) - 1) ELSE s

\* the query string of a request target
QueryOf(s) == IF HasQuery(s) THEN SubSeq(s, QueryAt(s) + 1, Len(s)) ELSE <<>>

\* the last direct call of match_route was made on the table as it is now
CalledNow == mcall.called /\ mcall.table = routes["r1"]

\* C11 as stated: for every route table, path p and query string q,
\* match(method, p?q) selects the same route, or the same no-match, as
\* match(method, p), with the same value for every path variable.
C11_QueryIgnored ==
    (CalledNow /\ HasQuery(mcall.path)) =>
        mcall.result = match_route("r1", mcall.method, PathOf(mcall.path))

\* C11, what the code does: the outcome is the same when every character of
\* the query string is of the class [a-zA-Z0-9%_=&-] of REGEX_PARAM_SEQ.
C11_QueryOfParamClassIgnored ==
    (/\ CalledNow
     /\ HasQuery(mcall.path)
     /\ \A i \in 1..Len(QueryOf(mcall.path)) :
            QueryOf(mcall.path)[i] \in ClassChars("[a-zA-Z0-9%_=&-]*")) =>
        mcall.result = match_route("r1", mcall.method, PathOf(mcall.path))

\* C11 witness: /foo/4711 is matched by the first route, /foo/4711?ids=1,2 by
\* none.
C11_Witness ==
    /\ CalledNow
    /\ HasQuery(mcall.path)
    /\ "," \in {QueryOf(mcall.path)[i] : i \in 1..Len(QueryOf(mcall.path))}
    /\ mcall.result = None
    /\ match_route("r1", mcall.method, PathOf(mcall.path)).tag = "Some"

\* C11 witness of the query strings that are ignored: the route and the
\* variables of /foo/4711?foo=true&bar=false are those of /foo/4711.
C11_WitnessIgnored ==
    /\ CalledNow
    /\ HasQuery(mcall.path)
    /\ mcall.result.tag = "Some"
    /\ mcall.result = match_route("r1", mcall.method, PathOf(mcall.path))
    /\ param(mcall.result.val, <<"u","s","e","r","i","d">>) = Some(<<"4","7","1","1">>)


\* the name of the format variable
FormatName == Tail(FORMAT_VAR)

\* what add_route appends to a pattern without ":format"
FormatGroup == <<"(", "\\", ".">> \o FORMAT_VAR \o <<")", "?">>

\* the pattern a route was registered with
Declared(route) ==
    LET n == Len(route.path) - Len(FormatGroup)
    IN  IF n >= 0 /\ SubSeq(route.path, n + 1, Len(route.path)) = FormatGroup
        THEN SubSeq(route.path, 1, n)
        ELSE route.path

\* the names of the variables a pattern declares
Declares(pattern) == {VarNames(pattern, 1)[k] : k \in 1..Len(VarNames(pattern, 1))}

\* position of the "." that starts the trailing .ext suffix of path p, 0 when
\* its last segment has none
ExtAt(p) ==
    LET dots == {i \in 1..Len(p) : p[i] = "." /\ \A j \in i..Len(p) : p[j] # "/"}
    IN  IF dots = {} THEN 0 ELSE CHOOSE i \in dots : \A j \in dots : j <= i

TrailingExt(p) == IF ExtAt(p) = 0 THEN <<>> ELSE SubSeq(p, ExtAt(p), Len(p))

WithoutExt(p) == IF ExtAt(p) = 0 THEN p ELSE SubSeq(p, 1, ExtAt(p) - 1)

\* on a match of a route whose pattern satisfies NoFormat, the format
\* variable is the trailing .ext suffix of the path ("" when there is none)
\* and the other variables are those of the path without the suffix
FormatCaptured(NoFormat(_)) ==
    (CalledNow /\ mcall.result.tag = "Some") =>
        LET rr == mcall.result.val
            route == routes["r1"][rr.route[2]]
            p == PathOf(mcall.path)
            bare == captures(route.matcher, WithoutExt(p))
        IN  NoFormat(Declared(route)) =>
                /\ param(rr, FormatName) = Some(TrailingExt(p))
                /\ bare.ok
                /\ \A n \in DOMAIN route.variables \ {FormatName} :
                       param(rr, n) = Some(bare.caps[route.variables[n] + 1])

\* every route whose pattern satisfies NoFormat has a format variable
FormatIndexed(NoFormat(_)) ==
    \A k \in 1..Len(routes["r1"]) :
        NoFormat(Declared(routes["r1"][k])) =>
            FormatName \in DOMAIN routes["r1"][k].variables

NoFormatVariable(pattern) == FormatName \notin Declares(pattern)

NoFormatText(pattern) == ~Contains(pattern, FORMAT_VAR)

\* C12 as stated: every route registered with a pattern that declares no
\* variable named format has a format variable in its variable index; on a
\* match its value is the trailing .ext suffix of the path when there is one
\* (the other variables capturing the path without the suffix) and empty
\* when there is none.
C12_FormatVariable ==
    FormatIndexed(NoFormatVariable) /\ FormatCaptured(NoFormatVariable)

\* C12, what the code does: the same for the patterns that do not contain
\* the text ":format".
C12_FormatUnlessText ==
    FormatIndexed(NoFormatText) /\ FormatCaptured(NoFormatText)

\* C12 witness: the route /:formatted declares the variable formatted, none
\* named format, and its variable index has no format variable.
C12_Witness ==
    \E k \in 1..Len(routes["r1"]) :
        /\ Declares(Declared(routes["r1"][k])) = {Tail(Tail(Declared(routes["r1"][k])))}
        /\ NoFormatVariable(Declared(routes["r1"][k]))
        /\ FormatName \notin DOMAIN routes["r1"][k].variables

\* C12 witness of the automatic format variable: /foo/John%20Doe.json gives
\* userid John%20Doe and format .json
C12_WitnessSuffix ==
    /\ CalledNow
    /\ mcall.result.tag = "Some"
    /\ NoFormatText(Declared(routes["r1"][mcall.result.val.route[2]]))
    /\ param(mcall.result.val, FormatName) = Some(<<".","j","s","o","n">>)
    /\ param(mcall.result.val, <<"u","s","e","r","i","d">>)
           = Some(<<"J","o","h","n","%","2","0","D","o","e">>)

\* the pattern /foo/:userid of the router's tests
FooUserid == <<"/","f","o","o","/",":","u","s","e","r","i","d">>

\* the value v such that p is /foo/v
FooValue(p) == SubSeq(p, 6, Len(p))

\* C16: a named variable captures a segment that holds commas or
\* percent-encoded sequences as one value: under the route /foo/:userid every
\* path /foo/v with v made of the characters [,a-zA-Z0-9%_-] (123,456 and
\* John%20Doe among them) matches with userid = v; and no captured value
\* contains "/".
C16_CommaAndPercentCaptured ==
    CalledNow =>
        /\ \A k \in 1..Len(routes["r1"]) :
               LET route == routes["r1"][k]
                   p == PathOf(mcall.path)
               IN  (/\ Declared(route) = FooUserid
                    /\ Len(p) > 5
                    /\ SubSeq(p, 1, 5) = SubSeq(FooUserid, 1, 5)
                    /\ \A i \in 6..Len(p) : p[i] \in VarSeqChars \cup {"%"}
                    /\ is_match(route.matcher, mcall.path)) =>
                       /\ mcall.result.tag = "Some"
                       /\ mcall.result.val.route[2] <= k
                       /\ mcall.result.val.route[2] = k =>
                              param(mcall.result.val, SubSeq(FooUserid, 7, 12))
                                  = Some(FooValue(p))
        /\ \A k \in 1..Len(routes["r1"]) :
               LET route == routes["r1"][k]
                   p == PathOf(mcall.path)
               IN  (/\ Declared(route) = FooUserid
                    /\ Len(p) > 5
                    /\ SubSeq(p, 1, 5) = SubSeq(FooUserid, 1, 5)
                    /\ \A i \in 6..Len(p) : p[i] \in VarSeqChars \cup {"%"}
                    /\ ~HasQuery(mcall.path)) =>
                       is_match(route.matcher, mcall.path)
        /\ mcall.result.tag = "Some" =>
               \A pos \in 1..Len(mcall.result.val.params) :
                   \A i \in 1..Len(mcall.result.val.params[pos]) :
                       mcall.result.val.params[pos][i] # "/"

\* C16 witness: /foo/John%20Doe matched the route /foo/:userid with userid
\* John%20Doe
C16_Witness ==
    /\ CalledNow
    /\ mcall.path = <<"/","f","o","o","/","J","o","h","n","%","2","0","D","o","e">>
    /\ mcall.result.tag = "Some"
    /\ Declared(routes["r1"][mcall.result.val.route[2]]) = FooUserid
    /\ param(mcall.result.val, SubSeq(FooUserid, 7, 12)) = Some(FooValue(mcall.path))

\* C16 witness of the comma: /foo/123,456 gives userid 123,456
C16_WitnessComma ==
    /\ CalledNow
    /\ mcall.result.tag = "Some"
    /\ Declared(routes["r1"][mcall.result.val.route[2]]) = FooUserid
    /\ param(mcall.result.val, SubSeq(FooUserid, 7, 12))
           = Some(<<"1","2","3",",","4","5","6">>)


(***************************************************************************)
(* The pattern compiler.                                                   *)
(***************************************************************************)
Compiled == tcall.fn = "create_regex"

\* matching the instantiation of a pattern of literals and variables by an
\* assignment of values from vals yields a match that captures, for every
\* variable, the value substituted for it
InstantiationCaptured(vals) ==
    Compiled =>
        \A a \in Assignments(tcall.route_path, vals) :
            (/\ \A i \in 1..Len(tcall.route_path) : tcall.route_path[i] # "*"
             /\ Declares(tcall.route_path) # {}
             /\ tcall.path = Instantiate(tcall.route_path, a, 1)) =>
                /\ tcall.is_match
                /\ tcall.captures.tag = "Some"
                /\ \A n \in DOMAIN tcall.variables :
                       tcall.captures.val[tcall.variables[n] + 1] = a[n]

\* the values made of the characters of VAR_SEQ_WITH_CAPTURE's class
ValuesOfClass ==
    {v \in Values : \A i \in 1..Len(v) : v[i] \in ClassChars("[,a-zA-Z0-9%_-]*")}

FooStarBar == <<"f","o","o","/","*","/","b","a","r">>
FooStarStarBar == <<"f","o","o","/","*","*","/","b","a","r">>

\* the segments made of the characters of VAR_SEQ's class
SegmentsOfClass ==
    {v \in Segments : \A i \in 1..Len(v) : v[i] \in ClassChars("[,a-zA-Z0-9_-]*")}

\* foo/*/bar matches foo/s/bar for every single segment s of segs, and no
\* path foo/s1/../sn/bar with two segments or more
StarOneSegment(segs) ==
    (Compiled /\ tcall.route_path = FooStarBar) =>
        /\ \A s \in segs : tcall.path = FooBar(<<s>>) => tcall.is_match
        /\ \A n \in 2..MaxBetween : \A ss \in [1..n -> Segments] :
               tcall.path = FooBar(ss) => ~tcall.is_match

\* C14 as stated: a lone * matches exactly one path segment: foo/*/bar
\* matches foo/s/bar for every single segment s of non-slash characters, and
\* no path whose text at the position of * contains "/".
C14_StarOneSegment == StarOneSegment(Segments)

\* C14, what the code does: the same for the segments made of the characters
\* [,a-zA-Z0-9_-].
C14_StarOneSegmentOfClass == StarOneSegment(SegmentsOfClass)

\* C14 witness: foo/*/bar does not match foo/test%20spacing/bar
C14_Witness ==
    /\ Compiled
    /\ tcall.route_path = FooStarBar
    /\ tcall.path = FooBar(<< <<"t","e","s","t","%","2","0","s","p","a","c","i","n","g">> >>)
    /\ ~tcall.is_match

\* C14 witness of the slash: foo/*/bar does not match foo/4711/4711/bar
C14_WitnessSlash ==
    /\ Compiled
    /\ tcall.route_path = FooStarBar
    /\ tcall.path = FooBar(<< <<"4","7","1","1">>, <<"4","7","1","1">> >>)
    /\ ~tcall.is_match

\* foo/**/bar matches foo/s1/../sn/bar for every n of ns and segments of
\* VAR_SEQ_WITH_SLASH's class
StarStarSegments(ns) ==
    (Compiled /\ tcall.route_path = FooStarStarBar) =>
        \A n \in ns : \A ss \in [1..n -> SegmentsOfClass] :
            tcall.path = FooBar(ss) => tcall.is_match

\* C15 as stated: ** matches text that spans several path segments and also
\* zero segments: foo/**/bar matches the paths with one, two or more
\* segments between foo and bar, and the path with none.
C15_StarStarAnySegments == StarStarSegments(0..MaxBetween)

\* C15, what the code does: foo/**/bar matches the paths with one segment
\* or more between foo and bar.
C15_StarStarOneOrMore == StarStarSegments(1..MaxBetween)

\* C15 witness: foo/**/bar does not match foo/bar
C15_Witness ==
    /\ Compiled
    /\ tcall.route_path = FooStarStarBar
    /\ tcall.path = FooBar(<<>>)
    /\ ~tcall.is_match

\* C15 witness of several segments: foo/**/bar matches foo/4711/5490,1234/bar
C15_WitnessSeveral ==
    /\ Compiled
    /\ tcall.route_path = FooStarStarBar
    /\ tcall.path = FooBar(<< <<"4","7","1","1">>, <<"5","4","9","0",",","1","2","3","4">> >>)
    /\ tcall.is_match


(***************************************************************************)
(* The route table.                                                        *)
(***************************************************************************)
\* a step that changes the table of the Router self appends one route built
\* from a method and a pattern, and keeps what was there
Appended(self) ==
    LET old == routes[self]
        new == routes'[self]
    IN  /\ Len(new) = Len(old) + 1
        /\ SubSeq(new, 1, Len(old)) = old
        /\ \E method \in Methods, path \in MatchPatterns :
               new[Len(new)] = NewRoute(method, path, "h1")
        /\ \A other \in Routers \ {self} : routes'[other] = routes[other]

\* C17: add appends exactly one route at the end of the table and leaves
\* every route registered before unchanged in position, method, matcher and
\* variable index, so the order of the table is the order of the calls; a
\* route shadowed by an earlier, broader one is added like any other.
C17_AddAppends ==
    [][\A self \in Routers : routes'[self] # routes[self] => Appended(self)]_vars

\* C17 witness: the route /a was added after the broader route /:x of the
\* same method, which accepts every path that /a accepts; both are in the
\* table, in that order.
C17_Witness ==
    LET t == routes["r1"]
    IN  /\ Len(t) = 2
        /\ Declared(t[1]) = <<"/", ":", "x">>
        /\ Declared(t[2]) = <<"/", "a">>
        /\ t[1].method = t[2].method
        /\ \E path \in MatchPaths : Accepts(t, 2, t[2].method, path)
        /\ \A path \in MatchPaths :
               Accepts(t, 2, t[2].method, path) => Accepts(t, 1, t[2].method, path)


(***************************************************************************)
(* Response headers.                                                       *)
(***************************************************************************)
\* the value set_fallback_headers gives a header that is not set
Default(h) ==
    CASE h = "Date" -> "now" [] h = "Server" -> "Nickel" [] OTHER -> "Html"

\* the value the on_send callbacks leave in header h: that of the callback
\* registered first among those that set h, since it runs last
AfterOnSend(h) ==
    LET setters == {i \in 1..Len(tcall.on_send) : tcall.on_send[i].name = h}
    IN  IF setters = {} THEN tcall.before.headers[h]
        ELSE tcall.on_send[CHOOSE i \in setters : \A j \in setters : i <= j].value

\* C18: set_header_fallback on a header that is set leaves its value as it
\* is and does not call the producer, and on an absent header sets it to the
\* producer's value; start, which finalizes the response, gives Date, Server
\* and ContentType their default only where neither the application nor an
\* on_send callback has set them; status and body are left alone.
C18_FallbackKeepsExplicit ==
    /\ tcall.fn = "set_header_fallback" =>
           /\ tcall.before.headers[tcall.name] # "absent" =>
                  tcall.after = tcall.before /\ tcall.called = {}
           /\ tcall.before.headers[tcall.name] = "absent" =>
                  /\ tcall.after.headers[tcall.name] = tcall.value
                  /\ tcall.called = {tcall.name}
           /\ \A h \in HeaderNames \ {tcall.name} :
                  tcall.after.headers[h] = tcall.before.headers[h]
           /\ tcall.after.status = tcall.before.status
           /\ tcall.after.body = tcall.before.body
    /\ tcall.fn = "start" =>
           /\ \A h \in HeaderNames :
                  /\ tcall.after.headers[h] =
                         IF AfterOnSend(h) # "absent" THEN AfterOnSend(h) ELSE Default(h)
                  /\ h \in tcall.called <=> AfterOnSend(h) = "absent"
           /\ tcall.after.status = tcall.before.status
           /\ tcall.after.body = tcall.before.body

\* C18 witness: start on a response whose ContentType the application set to
\* Json: it is still Json, its producer was not called, Server and Date got
\* their defaults.
C18_Witness ==
    /\ tcall.fn = "start"
    /\ tcall.on_send = <<>>
    /\ tcall.before.headers = [Response_new.headers EXCEPT !["ContentType"] = "Json"]
    /\ tcall.after.headers["ContentType"] = "Json"
    /\ tcall.after.headers["Server"] = "Nickel"
    /\ tcall.after.headers["Date"] = "now"
    /\ tcall.called = {"Date", "Server"}

\* C18 witness of a direct call: set_header_fallback on a header that is set
C18_WitnessDirect ==
    /\ tcall.fn = "set_header_fallback"
    /\ tcall.before.headers[tcall.name] \notin {"absent", tcall.value}
    /\ tcall.after = tcall.before
    /\ tcall.called = {}


(***************************************************************************)
(* The chain as a single forward pass.                                     *)
(***************************************************************************)
\* C19: within one request each unit is invoked at most once and in
\* increasing index order; unit i is invoked only after every unit before it
\* returned Continue; a unit that ends with next_middleware returns Continue,
\* which moves the chain to Running(i + 1) with the response it was given;
\* and a Router that runs a matched handler has the handler's outcome
\* (Continue, Halt or Error) before any later unit is invoked.
C19_SingleForwardPass ==
    /\ N <= Len(units)
    /\ idx <= Len(units)
    /\ \A k \in 1..N :
           /\ invoked[k].i = k - 1
           /\ invoked[k].unit = units[k]
           /\ k < N => invoked[k].kind = "Continue"
           /\ invoked[k].op = "next_middleware" =>
                  /\ invoked[k].kind = "Continue"
                  /\ invoked[k].res = Some(invoked[k].given)
                  /\ (k = N /\ ~done) =>
                         chain = "Running" /\ idx = k /\ res = invoked[k].given
           /\ invoked[k].hit =>
                  /\ invoked[k].handler_result \in {"Continue", "Halt", "Err"}
                  /\ \A l \in (k + 1)..N : invoked[l].i > invoked[k].i
           /\ ~invoked[k].hit => invoked[k].handler_result = "none"
    /\ chain = "Running" => idx = N
    /\ chain = "Idle" => N = 0

\* C19 witness: three units ran in order, the first two passed the request on
\* with next_middleware, the third is a Router whose matched handler ran
C19_Witness ==
    /\ N = 3
    /\ invoked[1].op = "next_middleware"
    /\ invoked[2].op = "next_middleware"
    /\ invoked[3].hit
    /\ invoked[3].handler_result = "Continue"

C20_WitnessHalt ==
    /\ done
    /\ Len(error_handlers) = 2
    /\ N >= 1
    /\ invoked[N].op = "set_body"
    /\ handled = <<>>


(***************************************************************************)
(* The Router as a middleware unit.                                        *)
(***************************************************************************)
\* the last direct call of invoke was made on the table as it is now
InvokedNow == tcall.fn = "invoke" /\ tcall.table = routes["r1"]

\* C21: on a hit the MatchResult is stored on the request and the status is
\* set to 200 before the handler starts: the request holds the match, every
\* variable of the route can be read from it, the body the handler writes is
\* built from the variables, and the status of the response the Router halts
\* with is the one the handler set, 200 when it set none.
C21_HitBaseline ==
    (InvokedNow /\ tcall.out.hit) =>
        LET rr == tcall.out.req.route_result
            route == routes["r1"][rr.val.route[2]]
        IN  /\ rr = match_route("r1", tcall.request.method, tcall.request.path)
            /\ rr.tag = "Some"
            /\ \A n \in DOMAIN route.variables : param(rr.val, n).tag = "Some"
            /\ tcall.out.result.kind = "Halt"
            /\ tcall.out.result.res.val.status =
                   IF tcall.prog.mod # 0 THEN tcall.prog.mod ELSE Ok
            /\ tcall.prog.op = "set_body" =>
                   tcall.out.result.res.val.body =
                       <<Chunk("handler", rr.val.route[2], rr.val.params)>>
            /\ tcall.prog.op # "set_body" =>
                   tcall.out.result.res.val.body = tcall.given.body

\* C21 witness: GET /user/:userid, request GET /user/42 on a response whose
\* status was NotFound: the Router halts with status 200 and a body built
\* from userid = 42.
C21_Witness ==
    /\ InvokedNow
    /\ tcall.out.hit
    /\ tcall.request.path = <<"/","u","s","e","r","/","4","2">>
    /\ tcall.given.status = NotFound
    /\ tcall.prog = [mod |-> 0, op |-> "set_body", status |-> 0]
    /\ Declared(routes["r1"][tcall.out.req.route_result.val.route[2]])
           = <<"/","u","s","e","r","/",":","u","s","e","r","i","d">>
    /\ param(tcall.out.req.route_result.val, <<"u","s","e","r","i","d">>) = Some(<<"4","2">>)
    /\ tcall.out.result.res.val.status = Ok
    /\ tcall.out.result.res.val.body[1].text[1] = <<"4","2">>

\* C21 witness of a status set by the handler
C21_WitnessStatus ==
    /\ InvokedNow
    /\ tcall.out.hit
    /\ tcall.given.status = Ok
    /\ tcall.prog.mod = NotFound
    /\ tcall.out.result.res.val.status = NotFound

(***************************************************************************)
(* The variable index.                                                     *)
(***************************************************************************)
\* the segments of s, split at "/", from position i on, cur being the
\* segment read so far
RECURSIVE SplitFrom(_, _, _)
SplitFrom(s, i, cur) ==
    IF i > Len(s) THEN <<cur>>
    ELSE IF s[i] = "/" THEN <<cur>> \o SplitFrom(s, i + 1, <<>>)
         ELSE SplitFrom(s, i + 1, Append(cur, s[i]))

SegmentsOf(s) == SplitFrom(s, 1, <<>>)

\* the positions, in left-to-right order, of the segments of a pattern that
\* are a named variable
RECURSIVE VarSegmentsFrom(_, _)
VarSegmentsFrom(segs, i) ==
    IF i > Len(segs) THEN <<>>
    ELSE IF Len(segs[i]) > 0 /\ segs[i][1] = ":"
         THEN <<i>> \o VarSegmentsFrom(segs, i + 1)
         ELSE VarSegmentsFrom(segs, i + 1)

\* the segment of path p that stands where segment i of the pattern stands,
\* counted from the end (no wildcard follows a variable in IndexPatterns)
OwnSegment(pattern, p, i) ==
    LET ps == SegmentsOf(WithoutExt(p))
        at == Len(ps) - (Len(SegmentsOf(pattern)) - i)
    IN  IF at \in 1..Len(ps) THEN Some(ps[at]) ELSE None

\* the k-th named variable of the route's pattern has index k (from 0)
KthToK(route) ==
    LET segs == SegmentsOf(Declared(route))
        vs == VarSegmentsFrom(segs, 1)
    IN  \A j \in 1..Len(vs) :
            /\ Tail(segs[vs[j]]) \in DOMAIN route.variables
            /\ route.variables[Tail(segs[vs[j]])] = j - 1

\* on the match rr of path p, every named variable of the route's pattern
\* has the text of the path at the variable's own position
OwnPosition(rr, p) ==
    LET route == routes[rr.route[1]][rr.route[2]]
        segs == SegmentsOf(Declared(route))
        vs == VarSegmentsFrom(segs, 1)
    IN  \A j \in 1..Len(vs) :
            param(rr, Tail(segs[vs[j]])) = OwnSegment(Declared(route), p, vs[j])

\* no name is written twice in the route's pattern
DistinctNames(route) ==
    LET names == VarNames(Declared(route), 1)
    IN  \A i, j \in 1..Len(names) : names[i] = names[j] => i = j

\* C22 as stated: for every route, the k-th named variable of the pattern,
\* left to right from 0, has index k, and on a match the value of every
\* variable is the text of the path at the variable's own position, also
\* when a wildcard stands before the variables.
C22_IndexInOrder ==
    /\ \A k \in 1..Len(routes["r1"]) : KthToK(routes["r1"][k])
    /\ (CalledNow /\ mcall.result.tag = "Some") =>
           OwnPosition(mcall.result.val, mcall.path)

\* C22, what the code does: the same, for the routes whose pattern writes no
\* name twice
C22_IndexInOrderDistinct ==
    /\ \A k \in 1..Len(routes["r1"]) :
           DistinctNames(routes["r1"][k]) => KthToK(routes["r1"][k])
    /\ (CalledNow /\ mcall.result.tag = "Some"
          /\ DistinctNames(routes["r1"][mcall.result.val.route[2]])) =>
           OwnPosition(mcall.result.val, mcall.path)

\* C22 witness: /**/:x/:y matched on /s/t/1/2 gives x = 1 and y = 2
C22_Witness ==
    /\ CalledNow
    /\ mcall.result.tag = "Some"
    /\ mcall.path = <<"/","s","/","t","/","1","/","2">>
    /\ Declared(routes["r1"][mcall.result.val.route[2]]) = <<"/","*","*","/",":","x","/",":","y">>
    /\ routes["r1"][mcall.result.val.route[2]].variables[<<"x">>] = 0
    /\ routes["r1"][mcall.result.val.route[2]].variables[<<"y">>] = 1
    /\ param(mcall.result.val, <<"x">>) = Some(<<"1">>)
    /\ param(mcall.result.val, <<"y">>) = Some(<<"2">>)

\* C22 witness of a pattern that names x twice: the index of x is 1
C22_WitnessTwice ==
    /\ CalledNow
    /\ mcall.result.tag = "Some"
    /\ mcall.path = <<"/","1","/","2">>
    /\ Declared(routes["r1"][mcall.result.val.route[2]]) = <<"/",":","x","/",":","x">>
    /\ routes["r1"][mcall.result.val.route[2]].variables[<<"x">>] = 1
    /\ param(mcall.result.val, <<"x">>) = Some(<<"2">>)

(***************************************************************************)
(* A format variable declared by the pattern.                              *)
(***************************************************************************)
\* C23: a route registered with a pattern that declares a variable named
\* format gets no format group appended: its path is the pattern, its
\* variable index holds exactly the names written in the pattern, each once,
\* and on a match format, like every other variable, is the segment of the
\* path at its declared position.
C23_DeclaredFormat ==
    /\ \A k \in 1..Len(routes["r1"]) :
           LET route == routes["r1"][k]
           IN  FormatName \in Declares(Declared(route)) =>
                   /\ route.path = Declared(route)
                   /\ DOMAIN route.variables = Declares(route.path)
                   /\ Cardinality(DOMAIN route.variables)
                          = Len(VarNames(route.path, 1))
                   /\ KthToK(route)
    /\ (CalledNow /\ mcall.result.tag = "Some") =>
           LET rr == mcall.result.val
               route == routes["r1"][rr.route[2]]
           IN  FormatName \in Declares(Declared(route)) =>
                   /\ Len(rr.params) = Len(VarNames(route.path, 1))
                   /\ OwnPosition(rr, PathOf(mcall.path))

\* C23 witness: /file/:format/:file matched on
\* /file/markdown/something?foo=true&bar=false gives format = markdown and
\* file = something
C23_Witness ==
    /\ CalledNow
    /\ mcall.result.tag = "Some"
    /\ mcall.path = <<"/","f","i","l","e","/","m","a","r","k","d","o","w","n","/","s","o","m","e","t","h","i","n","g","?","f","o","o","=","t","r","u","e","&","b","a","r","=","f","a","l","s","e">>
    /\ routes["r1"][mcall.result.val.route[2]].path = <<"/","f","i","l","e","/",":","f","o","r","m","a","t","/",":","f","i","l","e">>
    /\ DOMAIN routes["r1"][mcall.result.val.route[2]].variables
           = {<<"f","o","r","m","a","t">>, <<"f","i","l","e">>}
    /\ param(mcall.result.val, <<"f","o","r","m","a","t">>) = Some(<<"m","a","r","k","d","o","w","n">>)
    /\ param(mcall.result.val, <<"f","i","l","e">>) = Some(<<"s","o","m","e","t","h","i","n","g">>)

(***************************************************************************)
(* Requests processed at the same time.                                    *)
(***************************************************************************)
\* the state of a request processed alone, after n steps
RECURSIVE AloneAfter(_, _, _)
AloneAfter(request, plan, n) ==
    IF n = 0 THEN FreshFlight(request, plan)
    ELSE FlightStep(AloneAfter(request, plan, n - 1))

\* the route tables are those of the time the request was delivered, and
\* every request in flight is where it would be after as many steps alone:
\* the same matched route and captured variables on its Request, the same
\* Response, the same state of the chain
Isolated ==
    \A f \in FlightIds :
        Flights[f].active =>
            /\ Flights[f].table = routes
            /\ Flights[f] = AloneAfter(Flights[f].request, Flights[f].plan,
                                    Flights[f].steps)

Finalizing == tcall.fn = "finalize"

Deferred == Finalizing /\ tcall.op \in {"send_file", "render"}

\* the operation has not returned and waits for its job
Blocked == tcall.pc = "joining" /\ tcall.worker = "queued"

\* a job that failed leaves the outcome of the chain as it is: the operation
\* returns Halt, the chain is never Errored
FailureApart ==
    /\ tcall.chain # "Errored"
    /\ tcall.pc = "returned" =>
           tcall.out.result.kind = "Halt" /\ tcall.chain = "Halted"

\* C25 as stated: an operation with a deferred body (send_file, render)
\* never waits for its job before it returns Halt, and a job that fails
\* neither makes the chain Errored nor changes the Halt.
C25_NeverWaits == Deferred => (~Blocked /\ FailureApart)

\* C25, what the code does: send_file never waits for its job, render
\* returns only when its job has run, and for both a job that fails neither
\* makes the chain Errored nor changes the Halt.
C25_SendFileNeverWaits ==
    Deferred =>
        /\ tcall.op = "send_file" => ~Blocked
        /\ (tcall.op = "render" /\ tcall.pc = "returned") =>
               tcall.worker \in {"done", "failed"}
        /\ FailureApart

\* C25 witness: send_file has returned, the chain is Halted, and the job has
\* not run yet
C25_Witness ==
    /\ Deferred
    /\ tcall.op = "send_file"
    /\ tcall.pc = "returned" /\ tcall.chain = "Halted"
    /\ tcall.worker = "queued"

\* C25 witness of a job that failed after send_file returned Halt
C25_WitnessFailed ==
    /\ Deferred
    /\ tcall.op = "send_file"
    /\ tcall.chain = "Halted"
    /\ tcall.worker = "failed"

\* C25 witness of render waiting for its job
C25_WitnessBlocked == Deferred /\ tcall.op = "render" /\ Blocked

\* the operation returned Halt with a response on which start() ran once:
\* the on_send callbacks have run, last registered first, and Date, Server
\* and ContentType are set
Finalized ==
    LET sent_res == tcall.out.result.res.val
        ran == RunOnSend(tcall.given, tcall.on_send, Len(tcall.on_send))
    IN  /\ tcall.out.started = 1
        /\ \A h \in HeaderNames : sent_res.headers[h] # "absent"
        /\ \A h \in HeaderNames :
               ran.headers[h] # "absent" => sent_res.headers[h] = ran.headers[h]

\* C27 as stated: send_file, render and set_body return Halt with the
\* finalization hook run exactly once: the pending on_send callbacks have
\* run and Date, Server and Content-Type are present.
C27_FinalizedOnHalt ==
    (Finalizing /\ tcall.pc = "returned" /\ tcall.out.result.kind = "Halt") =>
        Finalized

\* C27, what the code does: this holds for send_file and render
C27_FinalizedUnlessSetBody ==
    (Finalizing /\ tcall.pc = "returned" /\ tcall.out.result.kind = "Halt"
       /\ tcall.op # "set_body") =>
        Finalized

\* C27 witness: send_file returned with a callback's Server header and the
\* default Date and the file's ContentType
C27_Witness ==
    /\ Finalizing /\ tcall.pc = "returned"
    /\ tcall.op = "send_file"
    /\ tcall.given = Response_new
    /\ tcall.on_send = << [name |-> "Server", value |-> "Apache"] >>
    /\ tcall.path.ext = "txt"
    /\ tcall.out.result.res.val.headers =
           [h \in HeaderNames |->
               CASE h = "Server" -> "Apache" [] h = "Date" -> "now" [] OTHER -> "Txt"]

\* C27 witness of set_body: Halt with no header set and the callback not run
C27_WitnessSetBody ==
    /\ Finalizing /\ tcall.pc = "returned"
    /\ tcall.op = "set_body"
    /\ tcall.given = Response_new
    /\ tcall.on_send = << [name |-> "Server", value |-> "Apache"] >>
    /\ tcall.out.result.kind = "Halt"
    /\ tcall.out.started = 0
    /\ \A h \in HeaderNames : tcall.out.result.res.val.headers[h] = "absent"

(***************************************************************************)
(* bail.                                                                   *)
(***************************************************************************)
\* C26: a unit that ends with bail yields an error that carries no response
\* and no status; the chain is Errored, no later unit runs, no registered and
\* no default error handler is invoked, and no response (status, body) is
\* sent for the request.
C26_BailBypassesHandlers ==
    \A k \in 1..N :
        invoked[k].op = "bail" =>
            /\ k = N
            /\ invoked[k].kind = "Err"
            /\ invoked[k].res = None
            /\ err = [message |-> invoked[k].message, status_code |-> None,
                      response |-> None]
            /\ chain = "Errored"
            /\ eh_idx = 0
            /\ handled = <<>>
            /\ sent = None
            /\ ~AtHandler /\ ~AtDefault

\* C26 witness: with two error handlers registered, the first unit set a
\* status and continued, the second bailed, and the request has ended
C26_Witness ==
    /\ done
    /\ Len(error_handlers) = 2
    /\ N = 2
    /\ invoked[1].kind = "Continue" /\ invoked[1].status = 0
    /\ invoked[1].res.val.status = NotFound
    /\ invoked[2].op = "bail"
    /\ handled = <<>>
    /\ sent = None

(***************************************************************************)
(* A unit that continues with the response unchanged.                      *)
(***************************************************************************)
\* the units us without the one at position p
Without(us, p) == SubSeq(us, 1, p - 1) \o SubSeq(us, p + 1, Len(us))

\* the end of the processing of a request by the units us: fl after the
\* steps it takes until it is done, n bounding their number
RECURSIVE RunToEnd(_, _, _)
RunToEnd(us, fl, n) ==
    IF fl.done \/ n = 0 THEN fl ELSE RunToEnd(us, ChainStep(us, fl), n - 1)

Outcome(us, request, plan) ==
    RunToEnd(us, FreshFlight(request, plan), Len(us) + Len(error_handlers) + 3)

\* the units of the application that ran, in order
OwnRan(fl) == SelectSeq(fl.ran, LAMBDA name : name # 0)

\* the flights a and b ended the same: same final state of the chain, same
\* response, same error and handlers consulted, same MatchResult, and the
\* same units of the application ran in the same order
SameOutcome(a, b) ==
    /\ a.done /\ b.done
    /\ a.chain = b.chain
    /\ a.res = b.res
    /\ a.err = b.err
    /\ a.eh_idx = b.eh_idx
    /\ a.req = b.req
    /\ OwnRan(a) = OwnRan(b)

\* C28: a request processed by a chain that holds a unit that returns
\* Continue with the response unchanged (the logger), at any position, ends
\* as it ends under the chain without that unit: the same units of the
\* application run in the same order, and the final state, the final
\* response and the error handling are the same.
C28_ContinueUnitIsNeutral ==
    (Flights[1].active /\ Flights[1].done) =>
        \A p \in 1..Len(units) :
            units[p] = "logger" =>
                SameOutcome(Flights[1],
                            Outcome(Without(units, p), Flights[1].request,
                                    Flights[1].plan))

\* C28 witness: a logger before a unit that sets a status and a Router that
\* hits: the logger and both units ran, the Router answered
C28_Witness ==
    /\ Flights[1].active /\ Flights[1].done
    /\ units = <<"logger", "mw", "r1">>
    /\ Flights[1].ran = <<0, 1, 2>>
    /\ Flights[1].plan.mw.mod = NotFound
    /\ Flights[1].req.route_result.tag = "Some"
    /\ Flights[1].res.status = Ok
    /\ Flights[1].chain = "Halted"

\* C28 witness of a logger between two units, the second of which ends the
\* chain with an error
C28_WitnessBetween ==
    /\ Flights[1].active /\ Flights[1].done
    /\ units = <<"r1", "logger", "mw">>
    /\ Flights[1].ran = <<1, 0, 2>>
    /\ Flights[1].err # NoError

(***************************************************************************)
(* The values of a match and the variable index.                           *)
(***************************************************************************)
\* on the match rr there are as many values as entries of the route's
\* variable index, every index is smaller than their number, and param
\* returns a value for every name of the index
EveryParamReadable(rr) ==
    LET route == routes[rr.route[1]][rr.route[2]]
    IN  /\ Len(rr.params) = Cardinality(DOMAIN route.variables)
        /\ \A n \in DOMAIN route.variables :
               /\ route.variables[n] < Len(rr.params)
               /\ param(rr, n).tag = "Some"

\* C29 as stated: for every route and every path that matches it, the values
\* extracted are as many as the entries of the variable index, every index
\* is smaller than their number, and param(name) returns a value for every
\* variable name of the route, also when the pattern repeats a name.
C29_EveryParamReadable ==
    (CalledNow /\ mcall.result.tag = "Some") => EveryParamReadable(mcall.result.val)

\* C29, what the code does: this holds on the matches of the routes whose
\* pattern writes no name twice
C29_EveryParamReadableDistinct ==
    (CalledNow /\ mcall.result.tag = "Some"
       /\ DistinctNames(routes["r1"][mcall.result.val.route[2]])) =>
        EveryParamReadable(mcall.result.val)

\* C29 witness: /**/:x/:y matched on /s/t/1/2.json has three values, x, y
\* and format
C29_Witness ==
    /\ CalledNow
    /\ mcall.result.tag = "Some"
    /\ mcall.path = <<"/","s","/","t","/","1","/","2",".","j","s","o","n">>
    /\ Declared(routes["r1"][mcall.result.val.route[2]]) = <<"/","*","*","/",":","x","/",":","y">>
    /\ Len(mcall.result.val.params) = 3
    /\ param(mcall.result.val, <<"x">>) = Some(<<"1">>)
    /\ param(mcall.result.val, <<"y">>) = Some(<<"2">>)
    /\ param(mcall.result.val, <<"f","o","r","m","a","t">>) = Some(<<".","j","s","o","n">>)

\* C29 witness of the pattern /:x/:x matched on /1/2: two values, the index
\* of format is 2, and param("format") fails
C29_WitnessFails ==
    /\ CalledNow
    /\ mcall.result.tag = "Some"
    /\ mcall.path = <<"/","1","/","2">>
    /\ Declared(routes["r1"][mcall.result.val.route[2]]) = <<"/",":","x","/",":","x">>
    /\ Len(mcall.result.val.params) = 2
    /\ routes["r1"][mcall.result.val.route[2]].variables[<<"f","o","r","m","a","t">>] = 2
    /\ param(mcall.result.val, <<"f","o","r","m","a","t">>) = Fail

(***************************************************************************)
(* Patterns of literal characters.                                         *)
(***************************************************************************)
\* the pattern has no :name, * or **
LiteralOnly(pattern) ==
    \A i \in 1..Len(pattern) : pattern[i] \notin {":", "*"}

\* the path of the request target s is the pattern, or the pattern followed
\* by a .ext suffix
EqualButExt(s, pattern) ==
    LET p == PathOf(s)
    IN  \/ p = pattern
        \/ ExtAt(p) # 0 /\ WithoutExt(p) = pattern

\* a match of a route whose pattern is literal and satisfies Plain is a
\* match of a path equal to the pattern
LiteralMatchesEqual(Plain(_)) ==
    (CalledNow /\ mcall.result.tag = "Some") =>
        LET pattern == Declared(routes["r1"][mcall.result.val.route[2]])
        IN  (LiteralOnly(pattern) /\ Plain(pattern)) =>
                EqualButExt(mcall.path, pattern)

AnyPattern(pattern) == TRUE

NoDot(pattern) == \A i \in 1..Len(pattern) : pattern[i] # "."

\* C30 as stated: a route whose pattern has only literal characters matches
\* a path only if the path, an optional .ext suffix and an optional query
\* string removed, is character for character the pattern.
C30_LiteralMatchesEqual == LiteralMatchesEqual(AnyPattern)

\* C30, what the code does: this holds for the literal patterns without "."
C30_LiteralMatchesEqualNoDot == LiteralMatchesEqual(NoDot)

\* C30 witness: /bar matched on /bar.json?a=1
C30_Witness ==
    /\ CalledNow
    /\ mcall.result.tag = "Some"
    /\ mcall.path = <<"/","b","a","r",".","j","s","o","n","?","a","=","1">>
    /\ Declared(routes["r1"][mcall.result.val.route[2]]) = <<"/","b","a","r">>

\* C30 witness of the pattern /a.b matched on /aXb
C30_WitnessDot ==
    /\ CalledNow
    /\ mcall.result.tag = "Some"
    /\ mcall.path = <<"/","a","X","b">>
    /\ Declared(routes["r1"][mcall.result.val.route[2]]) = <<"/","a",".","b">>

(***************************************************************************)
(* start() and the registered callbacks.                                   *)
(***************************************************************************)
\* the numbers of the callbacks of the list l
Ids(l) == {l[i].id : i \in 1..Len(l)}

\* the call e of start() ran the callbacks registered before it, last
\* registered first, and none registered while it ran: those stay registered
ReverseOrder(e) ==
    LET n == Len(e.given.on_send)
    IN  /\ e.taken = e.given.on_send
        /\ e.ran = [i \in 1..n |-> e.given.on_send[n + 1 - i].id]
        /\ \A i \in 1..Len(e.after.on_send) :
               /\ e.after.on_send[i].id >= e.given.next
               /\ e.after.on_send[i].id \notin Ids(e.taken)
        /\ Cardinality({i \in 1..n : e.taken[i].child.tag = "Some"})
               = Len(e.after.on_send)

\* the fallback headers were applied after the callbacks: a header a callback
\* of the call set has the value of the callback that ran last, the first
\* registered of those that set it, and every header absent after the
\* callbacks has its default
FallbackLast(e) ==
    \A h \in HeaderNames :
        LET setters == {i \in 1..Len(e.taken) : e.taken[i].name = h}
        IN  /\ setters # {} =>
                   LET first == CHOOSE i \in setters : \A j \in setters : i <= j
                   IN  /\ e.before_fallback.headers[h] = e.taken[first].value
                       /\ e.after.res.headers[h] = e.taken[first].value
            /\ e.before_fallback.headers[h] # "absent" =>
                   e.after.res.headers[h] = e.before_fallback.headers[h]
            /\ e.before_fallback.headers[h] = "absent" =>
                   e.after.res.headers[h] =
                       set_fallback_headers(Response_new).res.headers[h]

\* C31: every call of start() runs the callbacks registered before it in
\* reverse registration order, and not one registered while it runs; over
\* all the calls of start() on a response no callback runs twice, and a
\* callback still registered has not run; the fallback headers are applied
\* after the callbacks, so a header set by a callback keeps its value.
C31_CallbacksOnceReversed ==
    /\ \A k \in 1..Len(Starts) : ReverseOrder(Starts[k]) /\ FallbackLast(Starts[k])
    /\ \A k, l \in 1..Len(Starts) :
           \A i \in 1..Len(Starts[k].ran), j \in 1..Len(Starts[l].ran) :
               Starts[k].ran[i] = Starts[l].ran[j] => (k = l /\ i = j)
    /\ \A k \in 1..Len(Starts) :
           \A i \in 1..Len(Starts[k].ran) : Starts[k].ran[i] \notin Ids(Registered.on_send)

\* C31 witness: two callbacks were registered, the first of which registers a
\* third; the first start() ran the second, then the first, whose
\* ContentType stayed; the second start() ran the third only
C31_Witness ==
    /\ Len(Starts) = 2
    /\ Starts[1].ran = <<2, 1>>
    /\ Starts[1].taken[1].value = "Txt" /\ Starts[1].taken[2].value = "Json"
    /\ Starts[1].after.res.headers["ContentType"] = "Txt"
    /\ Starts[1].after.res.headers["Date"] = "now"
    /\ Ids(Starts[1].after.on_send) = {3}
    /\ Starts[2].ran = <<3>>
    /\ Starts[2].after.res.headers["Date"] = "yesterday"
    /\ Registered.on_send = <<>>

=============================================================================
